---- MODULE Spec2Model ----
(***************************************************************************)
(* Model of the configuration engine and the cache store of the           *)
(* sre-k8s-management backend:                                             *)
(*   backend/services/cache_manager.py        KubernetesCacheManager,      *)
(*                                             KubernetesCache             *)
(*   backend/services/kubernetes_service_enhanced.py                       *)
(*                                             KubernetesConfigManager     *)
(*   backend/server_enhanced.py               MockConfigurationManager,    *)
(*                                             EnhancedKubernetesService   *)
(*                                                                         *)
(* Configuration trees are tagged values: [t |-> "map", v |-> function],   *)
(* [t |-> "list", v |-> sequence], [t |-> "int"|"str", v |-> scalar] and   *)
(* PyNone.  Strings that the code inspects character-wise (cache keys and    *)
(* invalidation patterns) are sequences of tokens; "*" is a token of its   *)
(* own.  Time is an integer clock `now` in ticks; the TTLs of the cache    *)
(* strategies are counted in the same ticks.                               *)
(***************************************************************************)
EXTENDS Integers, Sequences, FiniteSets, TLC

VARIABLES
    cache,           \* KubernetesCacheManager._cache: key -> CacheEntry
    tag_index,       \* KubernetesCacheManager._tag_index: tag -> set of keys
    stats,           \* KubernetesCacheManager._stats
    cleanup_started, \* KubernetesCacheManager._cleanup_started
    cluster,         \* the cluster behind apps_v1 / core_v1: resource -> object
    config_cache,    \* KubernetesConfigManager.config_cache
    rollback_store,  \* KubernetesConfigManager.rollback_store
    mock_configs,    \* MockConfigurationManager.mock_configs
    available,       \* KubernetesConfig.available (FALSE: mock manager)
    calls,           \* number of reads and writes the cluster has received
    now,             \* the clock, in ticks
    steps,           \* number of operations invoked so far
    tasks,           \* what is in flight: background tasks of responses sent, the
                     \* sweep's position, applies between their read and write
    last             \* the most recent call and what it returned

vars == <<cache, tag_index, stats, cleanup_started, cluster, config_cache,
          rollback_store, mock_configs, available, calls, now, steps, tasks, last>>

cacheVars == <<cache, tag_index, stats, cleanup_started>>
engineVars == <<cluster, config_cache, rollback_store, mock_configs, calls>>

-----------------------------------------------------------------------------
(* Bounds of the model *)

MaxOps == 3        \* operations per behaviour
MaxTime == 100     \* last clock value explored
RoundTrip == 1     \* ticks one cluster read or write takes
MaxCacheSize == 1  \* value given to KubernetesCacheManager._max_cache_size

-----------------------------------------------------------------------------
(* Configuration trees *)

PyNone == [t |-> "none", v |-> 0]
PyInt(n) == [t |-> "int", v |-> n]
PyStr(s) == [t |-> "str", v |-> s]
PyList(q) == [t |-> "list", v |-> q]
PyDict(f) == [t |-> "map", v |-> f]
PyEmptyDict == PyDict(<<>>)

IsDict(x) == x.t = "map"
IsList(x) == x.t = "list"
IsInt(x) == x.t = "int"
Keys(d) == DOMAIN d.v
In(k, d) == k \in DOMAIN d.v

\* d with key k bound to x (d[k] = x)
DictSet(d, k, x) == PyDict([j \in Keys(d) \cup {k} |-> IF j = k THEN x ELSE d.v[j]])
\* d without the keys of ks (d.pop(k, PyNone) for each k)
DictPop(d, ks) == PyDict([j \in Keys(d) \ ks |-> d.v[j]])

Range(q) == {q[i] : i \in DOMAIN q}

-----------------------------------------------------------------------------
(* Text: messages, cache keys and patterns are sequences of tokens *)

IntStr(i) == CASE i = 0 -> "0" [] i = 1 -> "1" [] i = 2 -> "2" [] i = 3 -> "3"
               [] OTHER -> "n"

StartsWith(s, prefix) ==
    /\ Len(prefix) <= Len(s)
    /\ SubSeq(s, 1, Len(prefix)) = prefix

EndsWith(s, suffix) ==
    /\ Len(suffix) <= Len(s)
    /\ SubSeq(s, Len(s) - Len(suffix) + 1, Len(s)) = suffix

-----------------------------------------------------------------------------
(* KubernetesConfigManager: the pure functions *)

readonly_fields == {"uid", "resourceVersion", "generation", "creationTimestamp",
                    "deletionTimestamp", "deletionGracePeriodSeconds", "selfLink"}

_sanitize_metadata(metadata) ==
    DictPop(DictPop(metadata, readonly_fields), {"managedFields"})

\* the errors of the containers q[i..], numbered from 0 as enumerate() does
RECURSIVE ContainerErrors(_, _)
ContainerErrors(q, i) ==
    IF i > Len(q) THEN <<>>
    ELSE (IF ~In("name", q[i])
            THEN << <<"Container ", IntStr(i - 1), " must have a name">> >>
            ELSE <<>>)
         \o (IF ~In("image", q[i])
               THEN << <<"Container ", IntStr(i - 1), " must have an image">> >>
               ELSE <<>>)
         \o ContainerErrors(q, i + 1)

_validate_pod_template(template) ==
    IF ~In("spec", template)
      THEN << <<"Pod template must have a spec">> >>
      ELSE LET pod_spec == template.v["spec"] IN
           IF ~In("containers", pod_spec)
             THEN << <<"Pod spec must have containers">> >>
             ELSE ContainerErrors(pod_spec.v["containers"].v, 1)

\* isinstance(replicas, int) and replicas >= 0
ReplicasOk_any_integer(replicas) == IsInt(replicas)

ReplicasOk(replicas) == IsInt(replicas) /\ replicas.v >= 0

ReplicasErrors(spec) ==
    IF In("replicas", spec) /\ ~ReplicasOk(spec.v["replicas"])
      THEN << <<"Replicas must be a non-negative integer">> >>
      ELSE <<>>

_validate_deployment_spec(spec) ==
    ReplicasErrors(spec)
    \o (IF ~In("selector", spec)
          THEN << <<"Deployment must have a selector">> >>
          ELSE IF ~In("matchLabels", spec.v["selector"])
                 THEN << <<"Deployment selector must have matchLabels">> >>
                 ELSE <<>>)
    \o (IF ~In("template", spec)
          THEN << <<"Deployment must have a pod template">> >>
          ELSE _validate_pod_template(spec.v["template"]))

_validate_daemonset_spec(spec) ==
    (IF ~In("selector", spec)
       THEN << <<"DaemonSet must have a selector">> >>
       ELSE IF ~In("matchLabels", spec.v["selector"])
              THEN << <<"DaemonSet selector must have matchLabels">> >>
              ELSE <<>>)
    \o (IF ~In("template", spec)
          THEN << <<"DaemonSet must have a pod template">> >>
          ELSE _validate_pod_template(spec.v["template"]))

_validate_statefulset_spec(spec) ==
    ReplicasErrors(spec)
    \o (IF ~In("serviceName", spec)
          THEN << <<"StatefulSet must have a serviceName">> >>
          ELSE <<>>)

RECURSIVE PortErrors(_, _)
PortErrors(q, i) ==
    IF i > Len(q) THEN <<>>
    ELSE (IF ~In("port", q[i])
            THEN << <<"Service port ", IntStr(i - 1), " must have a port number">> >>
            ELSE <<>>)
         \o PortErrors(q, i + 1)

_validate_service_spec(spec) ==
    IF In("ports", spec) THEN PortErrors(spec.v["ports"].v, 1) ELSE <<>>

\* spec is a mapping whose selector, template, template.spec are mappings
\* and whose containers and ports are lists of mappings, when present
_validate_kubernetes_spec(resource_type, spec) ==
    CASE resource_type = "deployment" -> _validate_deployment_spec(spec)
      [] resource_type = "daemonset" -> _validate_daemonset_spec(spec)
      [] resource_type = "statefulset" -> _validate_statefulset_spec(spec)
      [] resource_type = "service" -> _validate_service_spec(spec)
      [] OTHER -> <<>>

RECURSIVE _deep_merge_dict(_, _)

\* a merge that appends the list of the source to the list of the target
_deep_merge_dict_extends_lists(target, source) ==
    PyDict([key \in Keys(target) \cup Keys(source) |->
            IF ~In(key, source) THEN target.v[key]
            ELSE IF In(key, target) /\ IsDict(target.v[key]) /\ IsDict(source.v[key])
                   THEN _deep_merge_dict(target.v[key], source.v[key])
            ELSE IF In(key, target) /\ IsList(target.v[key]) /\ IsList(source.v[key])
                   THEN PyList(target.v[key].v \o source.v[key].v)
                   ELSE source.v[key]])

\* a merge of the top level only (dict.update)
_deep_merge_dict_shallow(target, source) ==
    PyDict([key \in Keys(target) \cup Keys(source) |->
            IF In(key, source) THEN source.v[key] ELSE target.v[key]])

_deep_merge_dict(target, source) ==
    PyDict([key \in Keys(target) \cup Keys(source) |->
            IF ~In(key, source) THEN target.v[key]
            ELSE IF In(key, target) /\ IsDict(target.v[key]) /\ IsDict(source.v[key])
                   THEN _deep_merge_dict(target.v[key], source.v[key])
                   ELSE source.v[key]])

\* deepdiff.DeepDiff(t1, t2, ignore_order=True): the set of differences, each
\* with its kind, the path from the root, and the two values (PyNone: absent).
\* Lists are compared as unordered collections of their elements.
RECURSIVE DeepDiff(_, _, _)

\* the comparison with ignore_order=False: lists are compared position by position
DeepDiff_ordered(t1, t2, path) ==
    IF t1 = t2 THEN {}
    ELSE IF t1.t # t2.t
      THEN {[kind |-> "type_changes", path |-> path, old_value |-> t1, new_value |-> t2]}
    ELSE IF IsDict(t1)
      THEN {[kind |-> "dictionary_item_added", path |-> Append(path, k),
             old_value |-> PyNone, new_value |-> t2.v[k]] : k \in Keys(t2) \ Keys(t1)}
           \cup
           {[kind |-> "dictionary_item_removed", path |-> Append(path, k),
             old_value |-> t1.v[k], new_value |-> PyNone] : k \in Keys(t1) \ Keys(t2)}
           \cup
           UNION {DeepDiff(t1.v[k], t2.v[k], Append(path, k)) : k \in Keys(t1) \cap Keys(t2)}
    ELSE IF IsList(t1)
      THEN {[kind |-> "iterable_item_added", path |-> Append(path, IntStr(i - 1)),
             old_value |-> PyNone, new_value |-> t2.v[i]] :
               i \in DOMAIN t2.v \ DOMAIN t1.v}
           \cup
           {[kind |-> "iterable_item_removed", path |-> Append(path, IntStr(i - 1)),
             old_value |-> t1.v[i], new_value |-> PyNone] :
               i \in DOMAIN t1.v \ DOMAIN t2.v}
           \cup
           UNION {DeepDiff(t1.v[i], t2.v[i], Append(path, IntStr(i - 1))) :
                    i \in DOMAIN t1.v \cap DOMAIN t2.v}
    ELSE {[kind |-> "values_changed", path |-> path, old_value |-> t1, new_value |-> t2]}

DeepDiff(t1, t2, path) ==
    IF t1 = t2 THEN {}
    ELSE IF t1.t # t2.t
      THEN {[kind |-> "type_changes", path |-> path, old_value |-> t1, new_value |-> t2]}
    ELSE IF IsDict(t1)
      THEN {[kind |-> "dictionary_item_added", path |-> Append(path, k),
             old_value |-> PyNone, new_value |-> t2.v[k]] : k \in Keys(t2) \ Keys(t1)}
           \cup
           {[kind |-> "dictionary_item_removed", path |-> Append(path, k),
             old_value |-> t1.v[k], new_value |-> PyNone] : k \in Keys(t1) \ Keys(t2)}
           \cup
           UNION {DeepDiff(t1.v[k], t2.v[k], Append(path, k)) : k \in Keys(t1) \cap Keys(t2)}
    ELSE IF IsList(t1)
      THEN {[kind |-> "iterable_item_added",
             path |-> Append(path, IntStr((CHOOSE i \in DOMAIN t2.v : t2.v[i] = x) - 1)),
             old_value |-> PyNone, new_value |-> x] : x \in Range(t2.v) \ Range(t1.v)}
           \cup
           {[kind |-> "iterable_item_removed",
             path |-> Append(path, IntStr((CHOOSE i \in DOMAIN t1.v : t1.v[i] = x) - 1)),
             old_value |-> x, new_value |-> PyNone] : x \in Range(t1.v) \ Range(t2.v)}
    ELSE {[kind |-> "values_changed", path |-> path, old_value |-> t1, new_value |-> t2]}

\* the changes of updated against an empty original
_calculate_changes_from_empty(original, updated) ==
    {[field_path |-> <<"root", k>>, old_value |-> PyNone, new_value |-> updated.v[k],
      change_type |-> "added"] : k \in Keys(updated)}

\* the list of ConfigurationChange, as the set of its elements
_calculate_changes(original, updated) ==
    LET diff == DeepDiff(original, updated, <<"root">>)
        change_type(kind) ==
            CASE kind = "values_changed" -> "modified"
              [] kind = "dictionary_item_added" -> "added"
              [] kind = "dictionary_item_removed" -> "removed"
    IN {[field_path |-> change.path, old_value |-> change.old_value,
         new_value |-> change.new_value, change_type |-> change_type(change.kind)] :
          change \in {c \in diff : c.kind \in {"values_changed", "dictionary_item_added",
                                              "dictionary_item_removed"}}}

-----------------------------------------------------------------------------
(* KubernetesCacheManager.  A manager value cm is the record of its fields  *)
(* [cache, tag_index, stats, cleanup_started]; every method maps cm to the  *)
(* cm it leaves, and the methods that return something map it to [cm, ret]. *)

Strategies == {"no_cache", "short_term", "medium_term", "long_term", "persistent"}

_get_ttl_seconds(strategy) ==
    CASE strategy = "no_cache" -> 0
      [] strategy = "short_term" -> 30
      [] strategy = "medium_term" -> 120
      [] strategy = "long_term" -> 300
      [] strategy = "persistent" -> -1
      [] OTHER -> 0

\* expiry counted from the last access instead of from the time of the set
is_expired_since_access(entry, t) ==
    IF entry.ttl_seconds <= 0 THEN FALSE
    ELSE (t - entry.last_accessed) > entry.ttl_seconds

\* CacheEntry.is_expired at clock value t
is_expired(entry, t) ==
    IF entry.ttl_seconds <= 0 THEN FALSE
    ELSE (t - entry.timestamp) > entry.ttl_seconds

CacheManager == [cache |-> cache, tag_index |-> tag_index, stats |-> stats,
                 cleanup_started |-> cleanup_started]

\* the task that runs _periodic_cleanup is created by the first get
_ensure_cleanup_task(cm) == [cm EXCEPT !.cleanup_started = TRUE]

Bump(cm, counter, n) == [cm EXCEPT !.stats[counter] = @ + n]

\* _remove_entry without the loop over entry.tags
_remove_entry_keeps_tags(cm, key) ==
    IF key \notin DOMAIN cm.cache THEN cm
    ELSE [cm EXCEPT !.cache = [k \in DOMAIN cm.cache \ {key} |-> cm.cache[k]]]

\* _remove_entry that leaves its loop over entry.tags after the first tag
_remove_entry_first_tag_only(cm, key) ==
    IF key \notin DOMAIN cm.cache THEN cm
    ELSE LET entry == cm.cache[key]
             first == IF entry.tags = {} THEN {} ELSE {CHOOSE tag \in entry.tags : TRUE}
             discarded == [tag \in DOMAIN cm.tag_index |->
                             IF tag \in first THEN cm.tag_index[tag] \ {key}
                             ELSE cm.tag_index[tag]]
             kept == {tag \in DOMAIN discarded :
                        ~(tag \in first /\ discarded[tag] = {})}
         IN [cm EXCEPT !.tag_index = [tag \in kept |-> discarded[tag]],
                       !.cache = [k \in DOMAIN cm.cache \ {key} |-> cm.cache[k]]]

_remove_entry(cm, key) ==
    IF key \notin DOMAIN cm.cache THEN cm
    ELSE LET entry == cm.cache[key]
             discarded == [tag \in DOMAIN cm.tag_index |->
                             IF tag \in entry.tags THEN cm.tag_index[tag] \ {key}
                             ELSE cm.tag_index[tag]]
             kept == {tag \in DOMAIN discarded :
                        ~(tag \in entry.tags /\ discarded[tag] = {})}
         IN [cm EXCEPT !.tag_index = [tag \in kept |-> discarded[tag]],
                       !.cache = [k \in DOMAIN cm.cache \ {key} |-> cm.cache[k]]]

\* `for key in keys: await self._remove_entry(key)`
RECURSIVE RemoveEntries(_, _)
RemoveEntries(cm, keys) ==
    IF keys = {} THEN cm
    ELSE LET key == CHOOSE k \in keys : TRUE
         IN RemoveEntries(_remove_entry(cm, key), keys \ {key})

_cleanup_expired(cm, t) ==
    LET expired_keys == {key \in DOMAIN cm.cache : is_expired(cm.cache[key], t)}
    IN Bump(RemoveEntries(cm, expired_keys), "evictions", Cardinality(expired_keys))

\* eviction in the order of the entries' creation, not of their last access
LruVictims_by_timestamp(cm, max_cache_size) ==
    LET entries_to_remove == Cardinality(DOMAIN cm.cache) - max_cache_size
    IN IF entries_to_remove <= 0 THEN {{}}
       ELSE {victims \in SUBSET DOMAIN cm.cache :
               /\ Cardinality(victims) = entries_to_remove
               /\ \A e \in victims : \A k \in DOMAIN cm.cache \ victims :
                     cm.cache[e].timestamp <= cm.cache[k].timestamp}

\* The sets of keys that sorted(..., key=last_accessed)[:entries_to_remove] can
\* be: entries_to_remove keys none of which was accessed later than a key that
\* stays.  Entries with equal last_accessed are ordered by their position in
\* the dict, which the model leaves open.
LruVictims(cm, max_cache_size) ==
    LET entries_to_remove == Cardinality(DOMAIN cm.cache) - max_cache_size
    IN IF entries_to_remove <= 0 THEN {{}}
       ELSE {victims \in SUBSET DOMAIN cm.cache :
               /\ Cardinality(victims) = entries_to_remove
               /\ \A e \in victims : \A k \in DOMAIN cm.cache \ victims :
                     cm.cache[e].last_accessed <= cm.cache[k].last_accessed}

\* _enforce_size_limit without `self._stats['evictions'] += 1`
_enforce_size_limit_uncounted(cm, victims) == RemoveEntries(cm, victims)

_enforce_size_limit(cm, victims) ==
    Bump(RemoveEntries(cm, victims), "evictions", Cardinality(victims))

\* get without `await self._remove_entry(key)` for an expired entry
get_leaves_expired(cm0, key, t) ==
    LET cm == _ensure_cleanup_task(cm0)
    IN IF key \notin DOMAIN cm.cache \/ is_expired(cm.cache[key], t)
         THEN [cm |-> Bump(cm, "misses", 1), ret |-> PyNone]
       ELSE [cm |-> Bump([cm EXCEPT !.cache[key].access_count = @ + 1,
                                    !.cache[key].last_accessed = t], "hits", 1),
             ret |-> cm.cache[key].data]

get(cm0, key, t) ==
    LET cm == _ensure_cleanup_task(cm0)
    IN IF key \notin DOMAIN cm.cache
         THEN [cm |-> Bump(cm, "misses", 1), ret |-> PyNone]
       ELSE IF is_expired(cm.cache[key], t)
         THEN [cm |-> Bump(_remove_entry(cm, key), "misses", 1), ret |-> PyNone]
       ELSE [cm |-> Bump([cm EXCEPT !.cache[key].access_count = @ + 1,
                                    !.cache[key].last_accessed = t], "hits", 1),
             ret |-> cm.cache[key].data]

\* set without the early return for NO_CACHE: the entry is stored with ttl 0
set_stores_no_cache(cm, key, data, strategy, tags, t) ==
    LET removed == _remove_entry(cm, key)
        entry == [key |-> key, data |-> data, timestamp |-> t,
                  ttl_seconds |-> _get_ttl_seconds(strategy),
                  access_count |-> 0, last_accessed |-> t, tags |-> tags]
    IN [cm |-> [removed EXCEPT
                  !.cache = [k \in DOMAIN removed.cache \cup {key} |->
                               IF k = key THEN entry ELSE removed.cache[k]],
                  !.tag_index = [tag \in DOMAIN removed.tag_index \cup tags |->
                                   (IF tag \in DOMAIN removed.tag_index
                                      THEN removed.tag_index[tag] ELSE {})
                                   \cup (IF tag \in tags THEN {key} ELSE {})]],
        ret |-> TRUE]

\* set without `if key in self._cache: await self._remove_entry(key)`
set_over_old_entry(cm, key, data, strategy, tags, t) ==
    IF strategy = "no_cache" THEN [cm |-> cm, ret |-> FALSE]
    ELSE LET entry == [key |-> key, data |-> data, timestamp |-> t,
                       ttl_seconds |-> _get_ttl_seconds(strategy),
                       access_count |-> 0, last_accessed |-> t, tags |-> tags]
         IN [cm |-> [cm EXCEPT
                       !.cache = [k \in DOMAIN @ \cup {key} |->
                                    IF k = key THEN entry ELSE @[k]],
                       !.tag_index = [tag \in DOMAIN @ \cup tags |->
                                        (IF tag \in DOMAIN @ THEN @[tag] ELSE {})
                                        \cup (IF tag \in tags THEN {key} ELSE {})]],
             ret |-> TRUE]

set(cm, key, data, strategy, tags, t) ==
    IF strategy = "no_cache" THEN [cm |-> cm, ret |-> FALSE]
    ELSE LET removed == _remove_entry(cm, key)
             entry == [key |-> key, data |-> data, timestamp |-> t,
                       ttl_seconds |-> _get_ttl_seconds(strategy),
                       access_count |-> 0, last_accessed |-> t, tags |-> tags]
             stored == [k \in DOMAIN removed.cache \cup {key} |->
                          IF k = key THEN entry ELSE removed.cache[k]]
             indexed == [tag \in DOMAIN removed.tag_index \cup tags |->
                           (IF tag \in DOMAIN removed.tag_index
                              THEN removed.tag_index[tag] ELSE {})
                           \cup (IF tag \in tags THEN {key} ELSE {})]
         IN [cm |-> [removed EXCEPT !.cache = stored, !.tag_index = indexed],
             ret |-> TRUE]

invalidate_by_key(cm, key) ==
    IF key \in DOMAIN cm.cache
      THEN [cm |-> Bump(_remove_entry(cm, key), "invalidations", 1), ret |-> TRUE]
      ELSE [cm |-> cm, ret |-> FALSE]

\* invalidate_by_tag that drops the entries and the tag's own set, and leaves
\* the keys in the sets of the entries' other tags
invalidate_by_tag_own_set_only(cm, tag) ==
    IF tag \notin DOMAIN cm.tag_index THEN [cm |-> cm, ret |-> 0]
    ELSE LET keys_to_invalidate == cm.tag_index[tag]
         IN [cm |-> Bump([cm EXCEPT
                            !.cache = [k \in DOMAIN @ \ keys_to_invalidate |-> @[k]],
                            !.tag_index = [other \in DOMAIN @ \ {tag} |-> @[other]]],
                         "invalidations", Cardinality(keys_to_invalidate)),
             ret |-> Cardinality(keys_to_invalidate)]

invalidate_by_tag(cm, tag) ==
    IF tag \notin DOMAIN cm.tag_index THEN [cm |-> cm, ret |-> 0]
    ELSE LET keys_to_invalidate == cm.tag_index[tag]
         IN [cm |-> Bump(RemoveEntries(cm, keys_to_invalidate), "invalidations",
                         Cardinality(keys_to_invalidate)),
             ret |-> Cardinality(keys_to_invalidate)]

\* the match without the branch for a pattern that starts with '*'
PatternKeys_no_suffix_rule(cm, pattern) ==
    IF Len(pattern) > 0 /\ pattern[Len(pattern)] = "*"
      THEN {key \in DOMAIN cm.cache : StartsWith(key, SubSeq(pattern, 1, Len(pattern) - 1))}
    ELSE {key \in DOMAIN cm.cache : key = pattern}

\* pattern.endswith('*'), pattern.startswith('*'), pattern[:-1], pattern[1:]
PatternKeys(cm, pattern) ==
    IF Len(pattern) > 0 /\ pattern[Len(pattern)] = "*"
      THEN {key \in DOMAIN cm.cache : StartsWith(key, SubSeq(pattern, 1, Len(pattern) - 1))}
    ELSE IF Len(pattern) > 0 /\ pattern[1] = "*"
      THEN {key \in DOMAIN cm.cache : EndsWith(key, SubSeq(pattern, 2, Len(pattern)))}
    ELSE {key \in DOMAIN cm.cache : key = pattern}

invalidate_by_pattern(cm, pattern) ==
    LET keys_to_invalidate == PatternKeys(cm, pattern)
    IN [cm |-> Bump(RemoveEntries(cm, keys_to_invalidate), "invalidations",
                    Cardinality(keys_to_invalidate)),
        ret |-> Cardinality(keys_to_invalidate)]

clear_all(cm) ==
    [cm |-> Bump([cm EXCEPT !.cache = <<>>, !.tag_index = <<>>], "invalidations",
                 Cardinality(DOMAIN cm.cache)),
     ret |-> Cardinality(DOMAIN cm.cache)]

-----------------------------------------------------------------------------
(* KubernetesCache: keys, tags and the resource-level helpers *)

\* A resource is [type, namespace, name].
\* sorted(kwargs.items()) for the keyword names the module uses
ParamOrder == <<"label_selector", "name", "namespace", "type">>

\* "&".join(f"{k}={v}" ...) over the parameters from position i on; params maps
\* the names that are given and not None to their values
RECURSIVE ParamStr(_, _, _)
ParamStr(params, i, first) ==
    IF i > Len(ParamOrder) THEN <<>>
    ELSE IF ParamOrder[i] \in DOMAIN params
      THEN (IF first THEN <<>> ELSE <<"&">>)
           \o <<ParamOrder[i], "=", params[ParamOrder[i]]>>
           \o ParamStr(params, i + 1, FALSE)
      ELSE ParamStr(params, i + 1, first)

\* keys of the model stay under the 200 characters that switch to the hash
_generate_cache_key(prefix, params) ==
    LET param_str == ParamStr(params, 1, TRUE)
    IN IF param_str # <<>> THEN <<prefix, "?">> \o param_str ELSE <<prefix>>

ConfigKey(resource_type, namespace, name) ==
    _generate_cache_key("config",
        [type |-> resource_type, namespace |-> namespace, name |-> name])

ConfigTags(resource_type, namespace) ==
    {<<"configurations">>, <<"namespace:", namespace>>, <<"type:", resource_type>>}

get_resource_config(cm, resource_type, namespace, name, t) ==
    get(cm, ConfigKey(resource_type, namespace, name), t)

set_resource_config(cm, config, resource_type, namespace, name, t) ==
    set(cm, ConfigKey(resource_type, namespace, name), config, "short_term",
              ConfigTags(resource_type, namespace), t)

\* f"*type={resource_type}*namespace={namespace}*name={name}*"
ResourcePattern(resource_type, namespace, name) ==
    <<"*", "type", "=", resource_type, "*", "namespace", "=", namespace,
      "*", "name", "=", name, "*">>

\* invalidate_resource that invalidates the namespace tag
invalidate_resource_by_namespace(cm, resource_type, namespace, name) ==
    invalidate_by_tag(cm, <<"namespace:", namespace>>)

invalidate_resource(cm, resource_type, namespace, name) ==
    invalidate_by_pattern(cm, ResourcePattern(resource_type, namespace, name))

invalidate_namespace(cm, namespace) ==
    invalidate_by_tag(cm, <<"namespace:", namespace>>)

-----------------------------------------------------------------------------
(* Resources and configurations *)

Nginx == [type |-> "deployment", namespace |-> "default", name |-> "nginx-deployment"]
Datadog == [type |-> "daemonset", namespace |-> "kube-system", name |-> "datadog-agent"]
Ghost == [type |-> "deployment", namespace |-> "default", name |-> "ghost"]
NoResource == [type |-> "", namespace |-> "", name |-> ""]

Resources == {Nginx, Datadog, Ghost}

\* ResourceType, and the types get_resource_configuration can read
ResourceType == {"deployment", "daemonset", "statefulset", "service", "configmap", "secret"}
ReadableTypes == {"deployment", "daemonset", "statefulset", "service"}

\* MockConfigurationManager.mock_configs["deployment:default:nginx-deployment"]
NginxConfig ==
    PyDict([apiVersion |-> PyStr("apps/v1"),
            kind |-> PyStr("Deployment"),
            metadata |-> PyDict([name |-> PyStr("nginx-deployment"),
                                 namespace |-> PyStr("default"),
                                 labels |-> PyDict([app |-> PyStr("nginx")])]),
            spec |-> PyDict([
                replicas |-> PyInt(3),
                selector |-> PyDict([matchLabels |-> PyDict([app |-> PyStr("nginx")])]),
                template |-> PyDict([
                    metadata |-> PyDict([labels |-> PyDict([app |-> PyStr("nginx")])]),
                    spec |-> PyDict([containers |-> PyList(<<
                        PyDict([name |-> PyStr("nginx"),
                                image |-> PyStr("nginx:1.20"),
                                ports |-> PyList(<<PyDict([containerPort |-> PyInt(80)])>>)])
                    >>)])])])])

\* MockConfigurationManager.mock_configs["daemonset:kube-system:datadog-agent"]
DatadogConfig ==
    PyDict([apiVersion |-> PyStr("apps/v1"),
            kind |-> PyStr("DaemonSet"),
            metadata |-> PyDict([name |-> PyStr("datadog-agent"),
                                 namespace |-> PyStr("kube-system"),
                                 labels |-> PyDict([app |-> PyStr("datadog-agent")])]),
            spec |-> PyDict([
                selector |-> PyDict([matchLabels |-> PyDict([app |-> PyStr("datadog-agent")])]),
                template |-> PyDict([
                    metadata |-> PyDict([labels |-> PyDict([app |-> PyStr("datadog-agent")])]),
                    spec |-> PyDict([containers |-> PyList(<<
                        PyDict([name |-> PyStr("datadog-agent"),
                                image |-> PyStr("datadog/agent:latest"),
                                env |-> PyList(<<PyDict([name |-> PyStr("DD_API_KEY"),
                                                        value |-> PyStr("mock-key")])>>)])
                    >>)])])])])

\* config with spec.replicas set, as scale_deployment builds its proposal
WithReplicas(config, n) ==
    DictSet(config, "spec",
            DictSet(IF In("spec", config) THEN config.v["spec"] ELSE PyEmptyDict,
                    "replicas", PyInt(n)))

\* Proposed configurations a caller submits besides the one it fetched:
\* a partial patch of spec, an invalid partial patch, a patch of the labels
ReplicasPatch == PyDict([spec |-> PyDict([replicas |-> PyInt(5)])])
NegativePatch == PyDict([spec |-> PyDict([replicas |-> PyInt(-1)])])
LabelsPatch == PyDict([metadata |-> PyDict([labels |->
                   PyDict([app |-> PyStr("nginx"), tier |-> PyStr("web")])])])

Patches == {ReplicasPatch, NegativePatch, LabelsPatch}

\* The daemon set as the cluster holds it: its selector has matchExpressions
\* and no matchLabels
ClusterDatadogConfig ==
    DictSet(DatadogConfig, "spec",
            DictSet(DatadogConfig.v["spec"], "selector",
                    PyDict([matchExpressions |-> PyList(<<
                        PyDict([key |-> PyStr("app"), operator |-> PyStr("Exists")])>>)])))

Users == {"alice"}

\* datetime.now(timezone.utc).isoformat() and datetime.now().isoformat()
IsoUtc(t) == [clock |-> t, offset |-> "+00:00"]
IsoNaive(t) == [clock |-> t, offset |-> ""]

-----------------------------------------------------------------------------
(* The cluster behind the kubernetes client *)

NoObject == [exists |-> FALSE, config |-> PyEmptyDict, rv |-> 0]

ClusterFields == {"uid", "resourceVersion", "generation", "creationTimestamp",
                  "managedFields"}

\* resource.to_dict(): the desired state with the fields the cluster adds
ToDict(obj) ==
    LET metadata == IF In("metadata", obj.config) THEN obj.config.v["metadata"]
                    ELSE PyEmptyDict
        live == PyDict([j \in Keys(metadata) \cup ClusterFields |->
                    CASE j = "uid" -> PyStr("uid")
                      [] j = "resourceVersion" -> PyInt(obj.rv)
                      [] j = "generation" -> PyInt(obj.rv)
                      [] j = "creationTimestamp" -> PyStr("created")
                      [] j = "managedFields" -> PyList(<<>>)
                      [] OTHER -> metadata.v[j]])
    IN DictSet(DictSet(obj.config, "metadata", live),
               "status", PyDict([observedGeneration |-> PyInt(obj.rv)]))

\* patch_namespaced_*(body): the body is merged into the stored object, the
\* cluster keeps its own fields and bumps the version
Patched(obj, body) ==
    LET desired == IF In("metadata", body)
                     THEN DictSet(DictPop(body, {"status"}), "metadata",
                                  DictPop(body.v["metadata"], ClusterFields))
                     ELSE DictPop(body, {"status"})
    IN [exists |-> TRUE, config |-> _deep_merge_dict(obj.config, desired),
        rv |-> obj.rv + 1]

\* what the write of a real apply can report; a dry run writes nothing
WriteOutcomes == {"ok", "conflict", "notfound"}
WriteAnswers(dry_run) == IF dry_run THEN {"ok"} ELSE WriteOutcomes

-----------------------------------------------------------------------------
(* KubernetesConfigManager and MockConfigurationManager.  An engine value   *)
(* es is the record of the state the managers work on; a method maps es to  *)
(* the es it leaves together with what it returns or raises.                *)

Engine == [cluster |-> cluster, config_cache |-> config_cache,
           rollback_store |-> rollback_store, mock_configs |-> mock_configs,
           calls |-> calls, now |-> now]

\* f"{resource_type.value}:{namespace}:{name}"
ResourceKey(r) == <<r.type, ":", r.namespace, ":", r.name>>

\* the rollback key without the time of the apply
RollbackKey_no_time(r, t) == <<r.type, ":", r.namespace, ":", r.name, ":", IsoNaive(0)>>

\* f"{resource_type.value}:{namespace}:{name}:{datetime.now().isoformat()}"
RollbackKey(r, t) == ResourceKey(r) \o <<":", IsoNaive(t)>>

ConfigurationResult(success, message, applied_changes, rollback_data, validation_errors, timestamp, user, resource_version) ==
    [success |-> success, message |-> message, applied_changes |-> applied_changes,
     rollback_data |-> rollback_data, validation_errors |-> validation_errors,
     timestamp |-> timestamp, user |-> user, resource_version |-> resource_version]

NoResult == ConfigurationResult(FALSE, <<>>, {}, PyNone, <<>>, IsoUtc(0), "", PyNone)

\* status "ok" with the configuration, "http404" (HTTPException), or
\* "ValueError" for a type that has no read call
Manager_get_resource_configuration(es, r) ==
    IF r.type \notin ReadableTypes
      THEN [es |-> es, status |-> "ValueError", config |-> PyNone]
    ELSE LET read == [es EXCEPT !.calls.reads = @ + 1, !.now = @ + RoundTrip]
         IN IF ~es.cluster[r].exists
              THEN [es |-> read, status |-> "http404", config |-> PyNone]
            ELSE LET raw == ToDict(es.cluster[r])
                     nostatus == DictPop(raw, {"status"})
                     config == IF In("metadata", nostatus)
                                 THEN DictSet(nostatus, "metadata",
                                              _sanitize_metadata(nostatus.v["metadata"]))
                                 ELSE nostatus
                     cache_key == ResourceKey(r)
                     cached == [config |-> config, timestamp |-> read.now,
                                resource_version |-> es.cluster[r].rv]
                 IN [es |-> [read EXCEPT !.config_cache =
                               [k \in DOMAIN @ \cup {cache_key} |->
                                  IF k = cache_key THEN cached ELSE @[k]]],
                     status |-> "ok", config |-> config]

\* `if 'spec' in new_config: validation_errors = self._validate_kubernetes_spec(...)`
ValidationErrors(resource_type, new_config) ==
    IF In("spec", new_config)
      THEN _validate_kubernetes_spec(resource_type, new_config.v["spec"])
      ELSE <<>>

\* the check without `validation_errors`, and without `not dry_run`
ValidationBlocks_never(validation_errors, dry_run) == FALSE
ValidationBlocks_dry_run_too(validation_errors, dry_run) == validation_errors # <<>>

\* `if validation_errors and not dry_run: return ConfigurationResult(success=False, ...)`
ValidationBlocks(validation_errors, dry_run) ==
    validation_errors # <<>> /\ ~dry_run

\* a rollback store that keeps the newest record only
StoreRollback_keeps_latest(es, r, original_config, user) ==
    [es EXCEPT !.rollback_store =
       (RollbackKey(r, es.now) :>
          [config |-> original_config, user |-> user, timestamp |-> es.now])]

\* `self.rollback_store[rollback_key] = {...}` at clock value es.now
StoreRollback(es, r, original_config, user) ==
    LET rollback_key == RollbackKey(r, es.now)
    IN [es EXCEPT !.rollback_store =
          [k \in DOMAIN @ \cup {rollback_key} |->
             IF k = rollback_key
               THEN [config |-> original_config, user |-> user, timestamp |-> es.now]
               ELSE @[k]]]

\* the handler without its branch for status 409
ApiExceptionOutcome_generic(wr) ==
    CASE wr = "notfound" -> "http404"
      [] OTHER -> "http500"

\* the HTTPException an ApiException of the write is turned into
ApiExceptionOutcome(wr) ==
    CASE wr = "conflict" -> "http409"
      [] wr = "notfound" -> "http404"
      [] OTHER -> "http500"

\* update_resource_configuration from line 281 on; fetch is what its call of
\* get_resource_configuration returned or raised
UpdateFetched(fetch, r, new_config, user, dry_run, wr) ==
    LET es1 == fetch.es
        current_config == fetch.config
        original_config == current_config
        validation_errors == ValidationErrors(r.type, new_config)
        changes == _calculate_changes(current_config, new_config)
        es2 == StoreRollback(es1, r, original_config, user)
        merged_config == _deep_merge_dict(current_config, new_config)
        es3 == [es2 EXCEPT !.calls.writes = @ + 1, !.now = @ + RoundTrip]
        updated_resource == Patched(es1.cluster[r], merged_config)
        cache_key == ResourceKey(r)
        es4 == [es3 EXCEPT !.cluster[r] = updated_resource,
                           !.config_cache = [k \in DOMAIN @ \ {cache_key} |-> @[k]]]
    IN IF fetch.status # "ok"
         THEN \* raised inside the try block, caught by `except Exception`
              [es |-> es1, outcome |-> "result", current |-> PyNone, answer |-> "",
               result |-> ConfigurationResult(FALSE,
                            <<"Failed to update configuration: ", fetch.status>>,
                            {}, PyNone, << <<fetch.status>> >>, IsoUtc(es1.now),
                            user, PyNone)]
       ELSE IF ValidationBlocks(validation_errors, dry_run)
         THEN [es |-> es1, outcome |-> "result", current |-> current_config,
               answer |-> "",
               result |-> ConfigurationResult(FALSE,
                            <<"Configuration validation failed">>, {}, PyNone,
                            validation_errors, IsoUtc(es1.now), user, PyNone)]
       ELSE IF dry_run
         THEN [es |-> es1, outcome |-> "result", current |-> current_config,
               answer |-> "",
               result |-> ConfigurationResult(TRUE,
                            <<"Dry run completed successfully">>, changes,
                            original_config, validation_errors, IsoUtc(es1.now),
                            user, PyNone)]
       ELSE IF wr # "ok"
         THEN [es |-> es3, outcome |-> ApiExceptionOutcome(wr),
               current |-> current_config, answer |-> wr, result |-> NoResult]
       ELSE [es |-> es4, outcome |-> "result", current |-> current_config,
             answer |-> wr,
             result |-> ConfigurationResult(TRUE,
                          <<"Successfully updated ", r.type, " ", r.name>>, changes,
                          original_config, <<>>, IsoUtc(es4.now), user,
                          PyInt(updated_resource.rv))]

\* outcome "result" with the ConfigurationResult returned, or the HTTPException
\* raised; wr is what the cluster answers to the write and answer is wr if the
\* write was made; current is the configuration fetched at the start (PyNone
\* if the fetch failed)
Manager_update_resource_configuration(es, r, new_config, user, dry_run, wr) ==
    UpdateFetched(Manager_get_resource_configuration(es, r), r, new_config, user,
                  dry_run, wr)

Mock_get_resource_configuration(es, r) ==
    LET key == ResourceKey(r)
    IN IF key \in DOMAIN es.mock_configs
         THEN [es |-> es, status |-> "ok", config |-> es.mock_configs[key]]
         ELSE [es |-> es, status |-> "http404", config |-> PyNone]

\* dict.get(k), None when the key is missing
DictGet(d, k) == IF In(k, d) THEN d.v[k] ELSE PyNone

Mock_update_resource_configuration(es, r, new_config, user, dry_run) ==
    LET key == ResourceKey(r)
        validation_errors ==
            IF /\ In("spec", new_config)
               /\ r.type = "deployment"
               /\ In("replicas", new_config.v["spec"])
               /\ ~ReplicasOk(new_config.v["spec"].v["replicas"])
              THEN << <<"Replicas must be a non-negative integer">> >>
              ELSE <<>>
        current_config == IF key \in DOMAIN es.mock_configs
                            THEN es.mock_configs[key] ELSE PyNone
        changes ==
            IF /\ key \in DOMAIN es.mock_configs
               /\ In("spec", new_config)
               /\ In("spec", current_config)
               /\ DictGet(new_config.v["spec"], "replicas")
                    # DictGet(current_config.v["spec"], "replicas")
              THEN {[field_path |-> <<"spec.replicas">>,
                     old_value |-> DictGet(current_config.v["spec"], "replicas"),
                     new_value |-> DictGet(new_config.v["spec"], "replicas"),
                     change_type |-> "modified"]}
              ELSE {}
        es1 == IF ~dry_run /\ validation_errors = <<>> /\ key \in DOMAIN es.mock_configs
                 THEN [es EXCEPT !.mock_configs[key] = _deep_merge_dict(@, new_config)]
                 ELSE es
    IN [es |-> es1, outcome |-> "result", current |-> current_config, answer |-> "",
        result |-> ConfigurationResult(validation_errors = <<>>,
                     IF validation_errors = <<>>
                       THEN <<"Mock configuration updated successfully">>
                       ELSE <<"Validation failed">>,
                     changes,
                     IF key \in DOMAIN es1.mock_configs THEN es1.mock_configs[key]
                     ELSE PyNone,
                     validation_errors, IsoUtc(es1.now), user,
                     PyStr("mock-version-123"))]

-----------------------------------------------------------------------------
(* EnhancedKubernetesService: the manager behind the cache *)

\* get_resource_configuration of the service without `if cached is not None:
\* return cached`
ServiceFetched_always_reads(es, looked, r, use_cache, fetch) ==
       IF r.type \notin ResourceType \/ fetch.status = "ValueError"
         THEN [es |-> es, cm |-> looked.cm, outcome |-> "http400", config |-> PyNone]
       ELSE IF fetch.status # "ok"
         THEN [es |-> fetch.es, cm |-> looked.cm, outcome |-> fetch.status,
               config |-> PyNone]
       ELSE [es |-> fetch.es,
             cm |-> IF use_cache
                      THEN set_resource_config(looked.cm, fetch.config, r.type,
                                               r.namespace, r.name, fetch.es.now).cm
                      ELSE looked.cm,
             outcome |-> "ok", config |-> fetch.config]

\* get_resource_configuration of the service without `except ValueError`: the
\* error of an unknown or unreadable type reaches the caller as it was raised
ServiceFetched_no_except(es, looked, r, use_cache, fetch) ==
       IF use_cache /\ looked.ret # PyNone
         THEN [es |-> es, cm |-> looked.cm, outcome |-> "ok", config |-> looked.ret]
       ELSE IF r.type \notin ResourceType \/ fetch.status = "ValueError"
         THEN [es |-> es, cm |-> looked.cm, outcome |-> "ValueError", config |-> PyNone]
       ELSE IF fetch.status # "ok"
         THEN [es |-> fetch.es, cm |-> looked.cm, outcome |-> fetch.status,
               config |-> PyNone]
       ELSE [es |-> fetch.es,
             cm |-> IF use_cache
                      THEN set_resource_config(looked.cm, fetch.config, r.type,
                                               r.namespace, r.name, fetch.es.now).cm
                      ELSE looked.cm,
             outcome |-> "ok", config |-> fetch.config]

\* get_resource_configuration of the service, given what the cache lookup
\* returned (looked) and what the manager returns or raises if asked (fetch)
ServiceFetched(es, looked, r, use_cache, fetch) ==
       IF use_cache /\ looked.ret # PyNone
         THEN [es |-> es, cm |-> looked.cm, outcome |-> "ok", config |-> looked.ret]
       ELSE IF r.type \notin ResourceType \/ fetch.status = "ValueError"
         THEN [es |-> es, cm |-> looked.cm, outcome |-> "http400", config |-> PyNone]
       ELSE IF fetch.status # "ok"
         THEN [es |-> fetch.es, cm |-> looked.cm, outcome |-> fetch.status,
               config |-> PyNone]
       ELSE [es |-> fetch.es,
             cm |-> IF use_cache
                      THEN set_resource_config(looked.cm, fetch.config, r.type,
                                               r.namespace, r.name, fetch.es.now).cm
                      ELSE looked.cm,
             outcome |-> "ok", config |-> fetch.config]

\* outcome "ok" with the configuration, or the HTTPException raised
Service_get_resource_configuration(es, cm, r, use_cache) ==
    ServiceFetched(es,
                   IF use_cache
                     THEN get_resource_config(cm, r.type, r.namespace, r.name, es.now)
                     ELSE [cm |-> cm, ret |-> PyNone],
                   r, use_cache,
                   IF available THEN Manager_get_resource_configuration(es, r)
                   ELSE Mock_get_resource_configuration(es, r))

\* `await k8s_cache.invalidate_resource(...)` once the manager has returned;
\* an exception of the manager passes it by
ServiceUpdated(cm, r, updated) ==
    IF updated.outcome # "result"
      THEN [es |-> updated.es, cm |-> cm, outcome |-> updated.outcome,
            result |-> NoResult, current |-> updated.current,
            answer |-> updated.answer]
      ELSE [es |-> updated.es,
            cm |-> invalidate_resource(cm, r.type, r.namespace, r.name).cm,
            outcome |-> "result", result |-> updated.result,
            current |-> updated.current, answer |-> updated.answer]

\* outcome "result" with the ConfigurationResult, or the HTTPException raised
Service_update_resource_configuration(es, cm, r, config, user, dry_run, wr) ==
    IF r.type \notin ResourceType
      THEN [es |-> es, cm |-> cm, outcome |-> "http400", result |-> NoResult,
            current |-> PyNone, answer |-> ""]
      ELSE ServiceUpdated(cm, r,
             IF available
               THEN Manager_update_resource_configuration(es, r, config, user,
                                                          dry_run, wr)
               ELSE Mock_update_resource_configuration(es, r, config, user, dry_run))

-----------------------------------------------------------------------------
(* State *)

\* last: op and its arguments (resource, key, flag: use_cache or dry_run or the
\* flag returned, user, new_config), what it returned or raised (outcome,
\* result, ret, count), the configuration an update fetched (current) and the
\* cluster's answer to its write (answer)
\* nothing in flight: no background task, the sweep asleep, no apply under way
NoTasks == [background |-> <<>>, sweep |-> [phase |-> "sleep", keys |-> {}],
            applies |-> <<>>]

NoCall == [op |-> "none", resource |-> NoResource, key |-> <<>>, flag |-> FALSE,
           user |-> "", new_config |-> PyNone, outcome |-> "", result |-> NoResult,
           current |-> PyNone, answer |-> "", ret |-> PyNone, count |-> 0]

\* KubernetesCacheManager.__init__
EmptyManager ==
    [cache |-> <<>>, tag_index |-> <<>>,
     stats |-> [hits |-> 0, misses |-> 0, evictions |-> 0, invalidations |-> 0],
     cleanup_started |-> FALSE]

\* the state in which the cache manager is cm, the manager is the real one
\* (k8s) or the mock, and the most recent call is call
InitState(cm, k8s, call) ==
    /\ cache = cm.cache
    /\ tag_index = cm.tag_index
    /\ stats = cm.stats
    /\ cleanup_started = cm.cleanup_started
    /\ cluster = [r \in Resources |->
                    CASE r = Nginx -> [exists |-> TRUE, config |-> NginxConfig, rv |-> 1]
                      [] r = Datadog -> [exists |-> TRUE, config |-> ClusterDatadogConfig,
                                         rv |-> 1]
                      [] OTHER -> NoObject]
    /\ config_cache = <<>>
    /\ rollback_store = <<>>
    /\ mock_configs = (ResourceKey(Nginx) :> NginxConfig)
                      @@ (ResourceKey(Datadog) :> DatadogConfig)
    /\ available = k8s
    /\ tasks = NoTasks
    /\ calls = [reads |-> 0, writes |-> 0]
    /\ now = 0
    /\ steps = 0
    /\ last = call

InitWith(k8s) == InitState(EmptyManager, k8s, NoCall)

Init == InitWith(TRUE)
InitMock == InitWith(FALSE)

SetCacheManager(cm) ==
    /\ cache' = cm.cache
    /\ tag_index' = cm.tag_index
    /\ stats' = cm.stats
    /\ cleanup_started' = cm.cleanup_started

SetEngine(es) ==
    /\ es.now <= MaxTime
    /\ cluster' = es.cluster
    /\ config_cache' = es.config_cache
    /\ rollback_store' = es.rollback_store
    /\ mock_configs' = es.mock_configs
    /\ calls' = es.calls
    /\ now' = es.now

-----------------------------------------------------------------------------
(* Operations of the service *)

\* what a fetch of r shows its caller at this moment
View(r) ==
    LET fetch == IF available THEN Manager_get_resource_configuration(Engine, r)
                 ELSE Mock_get_resource_configuration(Engine, r)
    IN fetch.config

\* the configurations proposed for r: the patches, the configuration as
\* fetched, and the fetched configuration scaled to 5 replicas
Proposals(r) ==
    Patches \cup (IF View(r) = PyNone THEN {} ELSE {View(r), WithReplicas(View(r), 5)})

\* the service has served a fetch with out
FetchServed(r, use_cache, out) ==
    /\ SetEngine(out.es)
    /\ SetCacheManager(out.cm)
    /\ last' = [NoCall EXCEPT !.op = "fetch", !.resource = r, !.flag = use_cache,
                              !.outcome = out.outcome, !.ret = out.config]

Fetch(r, use_cache) ==
    /\ steps < MaxOps
    /\ FetchServed(r, use_cache,
         Service_get_resource_configuration(Engine, CacheManager, r, use_cache))
    /\ steps' = steps + 1
    /\ UNCHANGED <<available, tasks>>

\* the service has served an update with out
UpdateServed(r, config, user, dry_run, out) ==
    /\ SetEngine(out.es)
    /\ SetCacheManager(out.cm)
    /\ last' = [NoCall EXCEPT !.op = "update", !.resource = r, !.flag = dry_run,
                              !.user = user, !.new_config = config,
                              !.outcome = out.outcome, !.result = out.result,
                              !.current = out.current, !.answer = out.answer]

Update(r, config, user, dry_run, wr) ==
    /\ steps < MaxOps
    /\ UpdateServed(r, config, user, dry_run,
         Service_update_resource_configuration(Engine, CacheManager, r, config, user,
                                               dry_run, wr))
    /\ steps' = steps + 1
    /\ UNCHANGED <<available, tasks>>

\* time passes
Tick(d) ==
    /\ steps < MaxOps
    /\ now + d <= MaxTime
    /\ now' = now + d
    /\ steps' = steps + 1
    /\ last' = [NoCall EXCEPT !.op = "tick"]
    /\ UNCHANGED <<cache, tag_index, stats, cleanup_started, cluster, config_cache,
                   rollback_store, mock_configs, available, tasks, calls>>

\* one round of _periodic_cleanup
Sweep(victims) ==
    /\ cleanup_started
    /\ LET swept == _cleanup_expired(CacheManager, now)
       IN /\ victims \in LruVictims(swept, MaxCacheSize)
          /\ SetCacheManager(_enforce_size_limit(swept, victims))
    /\ last' = [NoCall EXCEPT !.op = "sweep"]
    /\ UNCHANGED <<cluster, config_cache, rollback_store, mock_configs, available, tasks,
                   calls, now, steps>>

-----------------------------------------------------------------------------
(* Operations of the cache store *)

CacheOp(op, key, out) ==
    /\ steps < MaxOps
    /\ SetCacheManager(out.cm)
    /\ steps' = steps + 1
    /\ UNCHANGED <<cluster, config_cache, rollback_store, mock_configs, available, tasks,
                   calls, now>>

Get(key) ==
    LET out == get(CacheManager, key, now)
    IN /\ CacheOp("get", key, out)
       /\ last' = [NoCall EXCEPT !.op = "get", !.key = key, !.ret = out.ret]

Set(key, data, strategy, tags) ==
    LET out == set(CacheManager, key, data, strategy, tags, now)
    IN /\ CacheOp("set", key, out)
       /\ last' = [NoCall EXCEPT !.op = "set", !.key = key, !.flag = out.ret]

InvalidateByKey(key) ==
    LET out == invalidate_by_key(CacheManager, key)
    IN /\ CacheOp("invalidate_by_key", key, out)
       /\ last' = [NoCall EXCEPT !.op = "invalidate_by_key", !.key = key,
                                 !.flag = out.ret]

InvalidateByTag(tag) ==
    LET out == invalidate_by_tag(CacheManager, tag)
    IN /\ CacheOp("invalidate_by_tag", tag, out)
       /\ last' = [NoCall EXCEPT !.op = "invalidate_by_tag", !.key = tag,
                                 !.count = out.ret]

InvalidateByPattern(pattern) ==
    LET out == invalidate_by_pattern(CacheManager, pattern)
    IN /\ CacheOp("invalidate_by_pattern", pattern, out)
       /\ last' = [NoCall EXCEPT !.op = "invalidate_by_pattern", !.key = pattern,
                                 !.count = out.ret]

ClearAll ==
    LET out == clear_all(CacheManager)
    IN /\ CacheOp("clear_all", <<>>, out)
       /\ last' = [NoCall EXCEPT !.op = "clear_all", !.count = out.ret]

-----------------------------------------------------------------------------
(* Specifications *)

TickSteps == {30}

\* the service in front of KubernetesConfigManager (Spec) or of
\* MockConfigurationManager (SpecMock)
Next ==
    \/ \E r \in Resources, use_cache \in BOOLEAN : Fetch(r, use_cache)
    \/ \E r \in Resources, user \in Users, dry_run \in BOOLEAN :
         \E config \in Proposals(r), wr \in WriteAnswers(dry_run) :
            Update(r, config, user, dry_run, wr)
    \/ \E d \in TickSteps : Tick(d)
    \/ \E victims \in SUBSET DOMAIN cache : Sweep(victims)

Spec == Init /\ [][Next]_vars
SpecMock == InitMock /\ [][Next]_vars

\* the cache store alone, driven through its consumer surface
CacheKeys == {ConfigKey("deployment", "default", "nginx-deployment"),
              _generate_cache_key("deployments", [namespace |-> "default"])}
CacheTags == {<<"configurations">>, <<"namespace:", "default">>}
CacheTagSets == {{}, {<<"namespace:", "default">>},
                 {<<"configurations">>, <<"namespace:", "default">>}}
CacheStrategies == {"no_cache", "short_term", "persistent"}
CachePatterns == {<<"*">>, <<"config", "*">>, <<"*", "=", "default">>,
                  ConfigKey("deployment", "default", "nginx-deployment"),
                  ResourcePattern("deployment", "default", "nginx-deployment")}
CacheData == {PyInt(1)}

NextCache ==
    \/ \E key \in CacheKeys : Get(key)
    \/ \E key \in CacheKeys, data \in CacheData, strategy \in CacheStrategies,
          tags \in CacheTagSets : Set(key, data, strategy, tags)
    \/ \E key \in CacheKeys : InvalidateByKey(key)
    \/ \E tag \in CacheTags : InvalidateByTag(tag)
    \/ \E pattern \in CachePatterns : InvalidateByPattern(pattern)
    \/ ClearAll
    \/ \E d \in TickSteps : Tick(d)
    \/ \E victims \in SUBSET DOMAIN cache : Sweep(victims)

SpecCache == Init /\ [][NextCache]_vars

-----------------------------------------------------------------------------
(* Properties *)

\* the step is a call of update_resource_configuration
UpdateStep == steps' = steps + 1 /\ last'.op = "update"

\* the cache key of the configuration of the resource of the last call
LastConfigKey == ConfigKey(last.resource.type, last.resource.namespace, last.resource.name)

\* C1: the tag index and the entry map agree in both directions: every key
\* listed under a tag is stored and carries that tag, and every tag of a stored
\* entry maps to a set that contains the entry's key.
C1_TagIndexAgrees ==
    /\ \A tag \in DOMAIN tag_index : \A key \in tag_index[tag] :
          key \in DOMAIN cache /\ tag \in cache[key].tags
    /\ \A key \in DOMAIN cache : \A tag \in cache[key].tags :
          tag \in DOMAIN tag_index /\ key \in tag_index[tag]

\* an entry was just invalidated while an entry with two tags is still stored
C1_Witness ==
    /\ last.op = "invalidate_by_key"
    /\ last.flag
    /\ \E key \in DOMAIN cache : Cardinality(cache[key].tags) = 2

\* C2: after a successful real apply the cache entry of the resource is gone,
\* and a cached fetch returns the configuration the cluster holds, never the
\* one from before an apply.
C2_ApplyRefreshesCache ==
    /\ (last.op = "update" /\ ~last.flag /\ last.outcome = "result"
          /\ last.result.success)
         => LastConfigKey \notin DOMAIN cache
    /\ (last.op = "fetch" /\ last.flag /\ last.outcome = "ok")
         => last.ret = View(last.resource)

C4_DryRunNeverBlocks ==
    (last.op = "update" /\ last.flag /\ last.current # PyNone)
      => /\ last.outcome = "result"
         /\ last.result.success
         /\ last.result.validation_errors
              = ValidationErrors(last.resource.type, last.new_config)

C6_ChangesAreDiffOfMerge ==
    (last.op = "update" /\ last.outcome = "result" /\ last.result.success)
      => last.result.applied_changes
           = _calculate_changes(last.current,
                                _deep_merge_dict(last.current, last.new_config))

\* C7: a dry-run apply whose proposal is the current configuration returns
\* success=true and no changes, whatever validation errors the proposal has.
C7_UnchangedDryRun ==
    (last.op = "update" /\ last.flag /\ last.current # PyNone
       /\ last.new_config = last.current)
      => /\ last.outcome = "result"
         /\ last.result.success
         /\ last.result.applied_changes = {}

\* a dry run of the current configuration, which has validation errors
C7_Witness ==
    /\ last.op = "update"
    /\ last.flag
    /\ last.current # PyNone
    /\ last.new_config = last.current
    /\ last.result.validation_errors # <<>>

\* C8: a real apply that passes validation adds exactly one rollback record,
\* under kind:namespace:name:timestamp of its resource, taken before the write
\* returns (so also when the write fails), holding the configuration fetched
\* and the actor; every other apply leaves the rollback store as it was.
C8_RealApplyRecordsOneSnapshot ==
    [][UpdateStep =>
         IF /\ ~last'.flag
            /\ last'.current # PyNone
            /\ ValidationErrors(last'.resource.type, last'.new_config) = <<>>
           THEN \E k \in DOMAIN rollback_store' \ DOMAIN rollback_store :
                  /\ DOMAIN rollback_store' = DOMAIN rollback_store \cup {k}
                  /\ SubSeq(k, 1, 5) = ResourceKey(last'.resource)
                  /\ k[6] = ":"
                  /\ k[7].clock > now
                  /\ k[7].clock < now'
                  /\ rollback_store'[k].config = last'.current
                  /\ rollback_store'[k].user = last'.user
                  /\ \A j \in DOMAIN rollback_store :
                        rollback_store'[j] = rollback_store[j]
           ELSE rollback_store' = rollback_store]_vars

\* a second real apply was recorded although its write met a conflict
C8_Witness ==
    /\ last.op = "update"
    /\ ~last.flag
    /\ last.answer = "conflict"
    /\ Cardinality(DOMAIN rollback_store) = 2

\* C9: the rollback snapshot in the result of a successful apply is the
\* configuration of the resource as it was before the apply.
C9_SnapshotIsPriorConfiguration ==
    (last.op = "update" /\ last.outcome = "result" /\ last.result.success)
      => last.result.rollback_data = last.current

\* C10: when the cluster answers the write of a real apply with a version
\* conflict, the apply ends with the Conflict outcome after that one write,
\* the cluster is unchanged and no cache entry is invalidated.
C10_ConflictAbortsOnce ==
    [][(UpdateStep /\ last'.answer = "conflict")
       => /\ last'.outcome = "http409"
          /\ calls'.writes = calls.writes + 1
          /\ cluster' = cluster
          /\ cache' = cache
          /\ tag_index' = tag_index
          /\ stats' = stats]_vars

\* an apply ended in Conflict while the configuration of its resource was cached
C10_Witness ==
    /\ last.op = "update"
    /\ last.outcome = "http409"
    /\ LastConfigKey \in DOMAIN cache

\* C11: an apply on a resource the cluster does not hold ends with the NotFound
\* outcome a fetch of that resource gives, not with a ConfigurationResult, and
\* makes no rollback record and no write.
C11_AbsentResourceFailsFast ==
    [][(/\ UpdateStep
        /\ last'.resource.type \in ReadableTypes
        /\ ~cluster[last'.resource].exists)
       => /\ last'.outcome = "http404"
          /\ rollback_store' = rollback_store
          /\ calls'.writes = calls.writes]_vars

-----------------------------------------------------------------------------
(* Rollback *)

\* rollback_configuration calling update_resource_configuration with dry_run=True
Manager_rollback_as_dry_run(es, r, rollback_key, user, wr) ==
    IF rollback_key \notin DOMAIN es.rollback_store
      THEN [es |-> es, outcome |-> "http404", current |-> PyNone, answer |-> "",
            result |-> NoResult]
      ELSE Manager_update_resource_configuration(es, r,
             es.rollback_store[rollback_key].config, user, TRUE, wr)

\* outcome "http404" for a key the rollback store does not hold, else what
\* update_resource_configuration returns or raises for the stored configuration
Manager_rollback_configuration(es, r, rollback_key, user, wr) ==
    IF rollback_key \notin DOMAIN es.rollback_store
      THEN [es |-> es, outcome |-> "http404", current |-> PyNone, answer |-> "",
            result |-> NoResult]
      ELSE Manager_update_resource_configuration(es, r,
             es.rollback_store[rollback_key].config, user, FALSE, wr)

\* the manager has served a rollback with out
RollbackServed(r, rollback_key, user, out) ==
    /\ SetEngine(out.es)
    /\ last' = [NoCall EXCEPT !.op = "rollback", !.resource = r, !.key = rollback_key,
                              !.user = user, !.outcome = out.outcome,
                              !.result = out.result, !.current = out.current,
                              !.answer = out.answer]

Rollback(r, rollback_key, user, wr) ==
    /\ steps < MaxOps
    /\ available
    /\ RollbackServed(r, rollback_key, user,
         Manager_rollback_configuration(Engine, r, rollback_key, user, wr))
    /\ steps' = steps + 1
    /\ UNCHANGED <<cache, tag_index, stats, cleanup_started, available, tasks>>

\* a rollback key that was never issued
MissingKey == RollbackKey(Ghost, 0)

\* applies and rollbacks on KubernetesConfigManager
NextRollback ==
    \/ \E r \in Resources, user \in Users, dry_run \in BOOLEAN :
         \E config \in Proposals(r), wr \in WriteAnswers(dry_run) :
            Update(r, config, user, dry_run, wr)
    \/ \E r \in Resources, rollback_key \in DOMAIN rollback_store \cup {MissingKey} :
         \E user \in Users, wr \in WriteOutcomes :
            Rollback(r, rollback_key, user, wr)

SpecRollback == Init /\ [][NextRollback]_vars

\* the step is a call of rollback_configuration
RollbackStep == steps' = steps + 1 /\ last'.op = "rollback"

\* C12: a rollback with a key the rollback store does not hold ends with
\* NotFound and changes nothing: no read, no write, no cache change, no new
\* record.  With a key it holds, the rollback leaves the state and returns what
\* a real apply of the stored snapshot by the same actor leaves and returns.
C12_RollbackIsApplyOfSnapshot ==
    [][RollbackStep =>
         IF last'.key \notin DOMAIN rollback_store
           THEN /\ last'.outcome = "http404"
                /\ UNCHANGED <<cluster, config_cache, rollback_store, calls, now,
                               cache, tag_index, stats>>
           ELSE \E wr \in WriteOutcomes :
                  LET applied == Manager_update_resource_configuration(Engine,
                                   last'.resource, rollback_store[last'.key].config,
                                   last'.user, FALSE, wr)
                  IN /\ [cluster |-> cluster', config_cache |-> config_cache',
                         rollback_store |-> rollback_store',
                         mock_configs |-> mock_configs', calls |-> calls',
                         now |-> now'] = applied.es
                     /\ last'.outcome = applied.outcome
                     /\ last'.result = applied.result
                     /\ last'.answer = applied.answer]_vars

\* a rollback with a stored key has changed the cluster back
C12_Witness ==
    /\ last.op = "rollback"
    /\ last.key \in DOMAIN rollback_store
    /\ last.outcome = "result"
    /\ last.result.success
    /\ last.result.applied_changes # {}
    /\ cluster[last.resource].config = rollback_store[last.key].config

\* C13: the rollback store is append-only: no apply and no rollback removes a
\* record or changes its snapshot, actor or timestamp, so the set of rollback
\* keys only grows.
C13_RollbackStoreAppendOnly ==
    [][\A k \in DOMAIN rollback_store :
          /\ k \in DOMAIN rollback_store'
          /\ rollback_store'[k] = rollback_store[k]]_vars

\* a rollback added a record to a store that held one
C13_Witness ==
    /\ last.op = "rollback"
    /\ last.key \in DOMAIN rollback_store
    /\ Cardinality(DOMAIN rollback_store) >= 2

-----------------------------------------------------------------------------
(* The cache store over time *)

\* the clock moves on to t; no call is made
Elapse(t) ==
    /\ t > now
    /\ now' = t
    /\ last' = [NoCall EXCEPT !.op = "tick"]
    /\ UNCHANGED <<cache, tag_index, stats, cleanup_started, cluster, config_cache,
                   rollback_store, mock_configs, available, tasks, calls, steps>>

\* the clock values around the three TTLs, for an entry set at 0 or at 1
TtlInstants == {1, 29, 30, 31, 119, 120, 121, 299, 300, 301}
TtlKeys == {ConfigKey("deployment", "default", "nginx-deployment")}
TimedStrategies == {"short_term", "medium_term", "long_term"}

\* one key set under the timed policies and read as time passes
NextTtl ==
    \/ \E key \in TtlKeys : Get(key)
    \/ \E key \in TtlKeys, data \in CacheData, strategy \in TimedStrategies :
         Set(key, data, strategy, {})
    \/ \E t \in TtlInstants : Elapse(t)
    \/ \E victims \in SUBSET DOMAIN cache : Sweep(victims)

SpecTtl == Init /\ [][NextTtl]_vars

\* the step is a call of get
GetStep == steps' = steps + 1 /\ last'.op = "get"

\* C14: a set under ShortTerm, MediumTerm or LongTerm stores the entry with
\* the time of the set and a ttl of 30, 120 or 300 seconds; a get of a stored
\* entry strictly before its time plus its ttl is a hit that returns the
\* stored value, and a get strictly after it is a miss.
C14_TtlBoundary ==
    [][/\ \A key \in TtlKeys, data \in CacheData :
            /\ Set(key, data, "short_term", {})
                 => cache'[key].timestamp = now /\ cache'[key].ttl_seconds = 30
            /\ Set(key, data, "medium_term", {})
                 => cache'[key].timestamp = now /\ cache'[key].ttl_seconds = 120
            /\ Set(key, data, "long_term", {})
                 => cache'[key].timestamp = now /\ cache'[key].ttl_seconds = 300
       /\ (GetStep /\ last'.key \in DOMAIN cache /\ cache[last'.key].ttl_seconds > 0)
            => /\ now < cache[last'.key].timestamp + cache[last'.key].ttl_seconds
                    => /\ last'.ret = cache[last'.key].data
                       /\ stats'.hits = stats.hits + 1
               /\ now > cache[last'.key].timestamp + cache[last'.key].ttl_seconds
                    => /\ last'.ret = PyNone
                       /\ stats'.misses = stats.misses + 1]_vars

\* an entry was read as a hit and later, past 300 seconds, as a miss
C14_Witness ==
    /\ last.op = "get"
    /\ last.ret = PyNone
    /\ now = 301
    /\ stats.hits = 1
    /\ stats.misses = 1

\* C15: a set under NoCache returns false and leaves the entries and the tag
\* index as they were, also when an entry is stored at that key; a get of a key
\* the store does not hold is a miss.
C15_NoCacheStoresNothing ==
    [][/\ \A key \in CacheKeys, data \in CacheData, tags \in CacheTagSets :
            Set(key, data, "no_cache", tags)
              => /\ last'.flag = FALSE
                 /\ cache' = cache
                 /\ tag_index' = tag_index
       /\ (GetStep /\ last'.key \notin DOMAIN cache)
            => /\ last'.ret = PyNone
               /\ cache' = cache]_vars

\* a set under NoCache on a key that holds an entry has returned false
C15_Witness ==
    /\ last.op = "set"
    /\ ~last.flag
    /\ last.key \in DOMAIN cache

-----------------------------------------------------------------------------
(* The cache store at its size limit *)

EvictKeys == CacheKeys \cup {_generate_cache_key("daemonsets", [namespace |-> "default"])}
EvictStrategies == {"short_term", "persistent"}
EvictInstants == {10, 40}

\* entries set and read as time passes, and the sweep
NextEvict ==
    \/ \E key \in EvictKeys : Get(key)
    \/ \E key \in EvictKeys, data \in CacheData, strategy \in EvictStrategies :
         Set(key, data, strategy, {})
    \/ \E t \in EvictInstants : Elapse(t)
    \/ \E victims \in SUBSET DOMAIN cache : Sweep(victims)

SpecEvict == Init /\ [][NextEvict]_vars

\* the step is a call of set
SetStep == steps' = steps + 1 /\ last'.op = "set"

\* C16: an entry stored under Persistent stays in the store, with its value,
\* through every get, every set on another key, every sweep and any passing
\* of time; only an invalidation or a set on its own key ends it.
C16_PersistentSurvives ==
    [][\A key \in DOMAIN cache :
          (cache[key].ttl_seconds < 0 /\ ~(SetStep /\ last'.key = key))
            => /\ key \in DOMAIN cache'
               /\ cache'[key].data = cache[key].data]_vars

\* C17 as stated: the set that adds a key to a store holding its maximum of
\* unexpired entries evicts exactly one entry, one with the oldest last access,
\* so the store holds no more than its maximum.
C17_InsertionEvicts ==
    [][(/\ SetStep
        /\ last'.flag
        /\ last'.key \notin DOMAIN cache
        /\ Cardinality(DOMAIN cache) = MaxCacheSize
        /\ \A k \in DOMAIN cache : ~is_expired(cache[k], now))
       => \E e \in DOMAIN cache :
            /\ DOMAIN cache' = (DOMAIN cache \cup {last'.key}) \ {e}
            /\ \A k \in DOMAIN cache :
                  cache[e].last_accessed <= cache[k].last_accessed]_vars

\* C17, amended: a set evicts nothing, so the store can exceed its maximum
\* until the next sweep.  The sweep drops the expired entries and then, of the
\* unexpired ones, exactly as many as exceed the maximum, none of them
\* accessed later than an entry that stays; so an entry read by get after the
\* others' last access is not the one evicted.  The entries that stay are
\* unchanged.
C17_SweepEvictsLeastRecentlyUsed ==
    [][/\ (SetStep /\ last'.flag)
            => DOMAIN cache' = DOMAIN cache \cup {last'.key}
       /\ last'.op = "sweep"
            => LET live == {k \in DOMAIN cache : ~is_expired(cache[k], now)}
                   evicted == live \ DOMAIN cache'
                   excess == Cardinality(live) - MaxCacheSize
               IN /\ DOMAIN cache' \subseteq live
                  /\ Cardinality(evicted) = IF excess > 0 THEN excess ELSE 0
                  /\ \A e \in evicted : \A k \in DOMAIN cache' :
                        cache[e].last_accessed <= cache[k].last_accessed
                  /\ \A k \in DOMAIN cache' : cache'[k] = cache[k]]_vars

\* before anything could expire, a sweep has evicted one entry and kept the
\* entry that was read after the insertions
C17_Witness ==
    /\ last.op = "sweep"
    /\ now = 10
    /\ stats.evictions = 1
    /\ Cardinality(DOMAIN cache) = MaxCacheSize
    /\ \E k \in DOMAIN cache :
          /\ cache[k].access_count = 1
          /\ cache[k].last_accessed > cache[k].timestamp

-----------------------------------------------------------------------------
(* merge and diff over configuration trees *)

MaxWeight == 2   \* keys a configuration tree has, counted over all its levels

TreeLeaves == {PyInt(1), PyInt(2), PyList(<<PyInt(1)>>), PyList(<<PyInt(1), PyInt(2)>>),
               PyList(<<PyInt(2), PyInt(1)>>)}

\* the number of keys of t, nested ones included
RECURSIVE Weight(_)
Weight(t) ==
    IF ~IsDict(t) THEN 0
    ELSE (IF In("a", t) THEN 1 + Weight(t.v["a"]) ELSE 0)
         + (IF In("b", t) THEN 1 + Weight(t.v["b"]) ELSE 0)

\* the values over the keys "a" and "b" with at most n keys
RECURSIVE Trees(_)
Trees(n) ==
    TreeLeaves \cup {PyEmptyDict}
    \cup (IF n >= 1
            THEN {PyDict([a |-> x]) : x \in Trees(n - 1)}
                 \cup {PyDict([b |-> x]) : x \in Trees(n - 1)}
            ELSE {})
    \cup (IF n >= 2
            THEN {PyDict([a |-> p[1], b |-> p[2]]) :
                    p \in {q \in Trees(n - 2) \X Trees(n - 2) :
                             Weight(q[1]) + Weight(q[2]) <= n - 2}}
            ELSE {})

\* the dictionaries _deep_merge_dict and _calculate_changes are given
ConfigTrees == {t \in Trees(MaxWeight) : IsDict(t)}

\* the state before a pure function is applied: its arguments are at hand in
\* last.current and last.new_config
InitArgs(op, current, new_config) ==
    /\ cache = <<>>
    /\ tag_index = <<>>
    /\ stats = [hits |-> 0, misses |-> 0, evictions |-> 0, invalidations |-> 0]
    /\ cleanup_started = FALSE
    /\ cluster = [r \in Resources |-> NoObject]
    /\ config_cache = <<>>
    /\ rollback_store = <<>>
    /\ mock_configs = <<>>
    /\ available = TRUE
    /\ tasks = NoTasks
    /\ calls = [reads |-> 0, writes |-> 0]
    /\ now = 0
    /\ steps = 0
    /\ last = [NoCall EXCEPT !.op = op, !.current = current, !.new_config = new_config]

InitTrees == \E base \in ConfigTrees, patch \in ConfigTrees : InitArgs("trees", base, patch)

\* _deep_merge_dict(last.current, last.new_config)
Merge ==
    /\ last.op = "trees"
    /\ last' = [last EXCEPT !.op = "merge",
                            !.ret = _deep_merge_dict(last.current, last.new_config)]
    /\ UNCHANGED <<cache, tag_index, stats, cleanup_started, cluster, config_cache,
                   rollback_store, mock_configs, available, tasks, calls, now, steps>>

\* _calculate_changes(last.current, last.new_config)
Diff ==
    /\ last.op = "trees"
    /\ last' = [last EXCEPT !.op = "diff",
                            !.result.applied_changes =
                               _calculate_changes(last.current, last.new_config)]
    /\ UNCHANGED <<cache, tag_index, stats, cleanup_started, cluster, config_cache,
                   rollback_store, mock_configs, available, tasks, calls, now, steps>>

\* The merge patch a change list stands for: under the path of every change,
\* without its leading "root", the new value of the change (None for a removal)
RECURSIVE PatchOf(_, _)
PatchOf(changes, prefix) ==
    LET below == {c \in changes : /\ Len(c.field_path) > Len(prefix)
                                   /\ SubSeq(c.field_path, 1, Len(prefix)) = prefix}
        n == Len(prefix) + 1
    IN PyDict([k \in {c.field_path[n] : c \in below} |->
                 IF \E c \in below : c.field_path = Append(prefix, k)
                   THEN (CHOOSE c \in below : c.field_path = Append(prefix, k)).new_value
                   ELSE PatchOf(below, Append(prefix, k))])

\* _calculate_changes(last.current, last.new_config), then the changes merged
\* into last.current as a patch
Reapply ==
    /\ last.op = "trees"
    /\ last' = [last EXCEPT
                  !.op = "reapply",
                  !.result.applied_changes =
                     _calculate_changes(last.current, last.new_config),
                  !.ret = _deep_merge_dict(last.current,
                             PatchOf(_calculate_changes(last.current, last.new_config),
                                     <<"root">>))]
    /\ UNCHANGED <<cache, tag_index, stats, cleanup_started, cluster, config_cache,
                   rollback_store, mock_configs, available, tasks, calls, now, steps>>

NextTrees == Merge \/ Diff \/ Reapply

SpecTrees == InitTrees /\ [][NextTrees]_vars

\* C18: merge is idempotent in its patch: merging the patch into the result
\* of merge(base, patch) once more gives that result again.
C18_MergeIdempotent ==
    last.op = "merge" => _deep_merge_dict(last.ret, last.new_config) = last.ret

\* the merge went into a mapping that base and patch both have, and the result
\* is neither of them
C18_Witness ==
    /\ last.op = "merge"
    /\ last.ret # last.current
    /\ last.ret # last.new_config
    /\ \E k \in Keys(last.current) \cap Keys(last.new_config) :
          IsDict(last.current.v[k]) /\ IsDict(last.new_config.v[k])

\* m is what the merge of patch into base is to be: the keys of both; a key of
\* patch whose values in base and patch are both mappings holds their merge,
\* any other key of patch holds the value of patch, and a key of base alone
\* holds the value of base
RECURSIVE IsMergeOf(_, _, _)
IsMergeOf(m, base, patch) ==
    /\ IsDict(m)
    /\ Keys(m) = Keys(base) \cup Keys(patch)
    /\ \A k \in Keys(m) :
          IF ~In(k, patch) THEN m.v[k] = base.v[k]
          ELSE IF In(k, base) /\ IsDict(base.v[k]) /\ IsDict(patch.v[k])
                 THEN IsMergeOf(m.v[k], base.v[k], patch.v[k])
                 ELSE m.v[k] = patch.v[k]

C20_DiffOfEqualIsEmpty ==
    (last.op = "diff" /\ last.current = last.new_config)
      => last.result.applied_changes = {}

\* a tree with nested keys was compared with itself
C20_Witness ==
    /\ last.op = "diff"
    /\ last.current = last.new_config
    /\ Weight(last.current) >= 2

\* C21: diff/merge round trip: the change list of a against b, merged into a
\* as a patch, gives b, also when b lacks keys of a and when lists differ.
C21_DiffMergeRoundTrip ==
    last.op = "reapply" => last.ret = last.new_config

\* q is p in another order
IsPermutation(p, q) ==
    /\ Len(p) = Len(q)
    /\ \A x \in Range(p) \cup Range(q) :
          Cardinality({i \in DOMAIN p : p[i] = x}) = Cardinality({i \in DOMAIN q : q[i] = x})

\* t1 and t2 differ at most in the order of the elements of their lists
RECURSIVE SameUpToListOrder(_, _)
SameUpToListOrder(t1, t2) ==
    IF IsDict(t1) /\ IsDict(t2)
      THEN /\ Keys(t1) = Keys(t2)
           /\ \A k \in Keys(t1) : SameUpToListOrder(t1.v[k], t2.v[k])
    ELSE IF IsList(t1) /\ IsList(t2) THEN IsPermutation(t1.v, t2.v)
    ELSE t1 = t2

\* C22: diff takes lists as collections without order: two trees that differ
\* only in the order of the elements of their lists give an empty change list.
C22_ListOrderIgnored ==
    (last.op = "diff" /\ SameUpToListOrder(last.current, last.new_config))
      => last.result.applied_changes = {}

\* two trees with the same list in two orders were compared
C22_Witness ==
    /\ last.op = "diff"
    /\ last.current # last.new_config
    /\ SameUpToListOrder(last.current, last.new_config)

\* C23: diff reports a change of a list's content: when a list of updated has
\* an element the list of original lacks, or lacks one that original has, the
\* change list has a change for that field.
C23_ListContentReported ==
    last.op = "diff" =>
      \A k \in Keys(last.current) \cap Keys(last.new_config) :
         (/\ IsList(last.current.v[k])
          /\ IsList(last.new_config.v[k])
          /\ Range(last.current.v[k].v) # Range(last.new_config.v[k].v))
         => \E c \in last.result.applied_changes :
               StartsWith(c.field_path, <<"root", k>>)

------------------------------------------------------------------------

-----------------------------------------------------------------------------
(* validation of proposed specs *)

MaxContainers == 2   \* containers a pod template has at most

\* a container with or without its name and its image
Containers ==
    {DictPop(PyDict([name |-> PyStr("nginx"), image |-> PyStr("nginx:1.21")]), ks) :
       ks \in SUBSET {"name", "image"}}

\* a template without spec, with a spec without containers, and with each list
\* of at most MaxContainers containers
PodTemplates ==
    {PyEmptyDict, PyDict([spec |-> PyEmptyDict])}
    \cup {PyDict([spec |-> PyDict([containers |-> PyList(q)])]) :
            q \in UNION {[1..n -> Containers] : n \in 0..MaxContainers}}

\* the specs given to the validator: replicas, selector and template are each
\* absent or one of the values named here
ProposedSpecs ==
    LET WithOptional(ds, k, xs) == ds \cup {DictSet(d, k, x) : d \in ds, x \in xs}
        replicas == {PyInt(3), PyInt(0), PyInt(-1), PyStr("3"), PyNone}
        selectors == {PyEmptyDict, PyDict([matchLabels |-> PyDict([app |-> PyStr("nginx")])])}
    IN WithOptional(WithOptional(WithOptional({PyEmptyDict}, "replicas", replicas),
                                 "selector", selectors),
                    "template", PodTemplates)

InitValidate == \E spec \in ProposedSpecs : InitArgs("spec", PyNone, spec)

\* _validate_kubernetes_spec(resource_type, last.new_config)
Validate(resource_type) ==
    /\ last.op = "spec"
    /\ last' = [last EXCEPT !.op = "validate",
                            !.resource.type = resource_type,
                            !.result.validation_errors =
                               _validate_kubernetes_spec(resource_type, last.new_config)]
    /\ UNCHANGED <<cache, tag_index, stats, cleanup_started, cluster, config_cache,
                   rollback_store, mock_configs, available, tasks, calls, now, steps>>

NextValidate ==
    \E resource_type \in {"deployment", "daemonset", "statefulset", "service"} :
       Validate(resource_type)

SpecValidate == InitValidate /\ [][NextValidate]_vars

C25_PodTemplateRule ==
    (/\ last.op = "validate"
     /\ last.resource.type \in {"deployment", "daemonset"}
     /\ In("template", last.new_config)
     /\ In("spec", last.new_config.v["template"])) =>
      LET pod_spec == last.new_config.v["template"].v["spec"]
          errors == last.result.validation_errors
          Count(message) == Cardinality({i \in DOMAIN errors : errors[i] = message})
          containers == IF In("containers", pod_spec) THEN pod_spec.v["containers"].v
                        ELSE <<>>
      IN /\ containers = <<>> => errors # <<>>
         /\ \A i \in DOMAIN containers :
               /\ Count(<<"Container ", IntStr(i - 1), " must have a name">>)
                    = (IF In("name", containers[i]) THEN 0 ELSE 1)
               /\ Count(<<"Container ", IntStr(i - 1), " must have an image">>)
                    = (IF In("image", containers[i]) THEN 0 ELSE 1)

-----------------------------------------------------------------------------
(* EnhancedKubernetesService.batch_operation.  A batch value st is the      *)
(* record of the engine es, the cache manager cm, and the locals results,   *)
(* success_count and failed_count of the loop.                              *)

MaxTargets == 2   \* resources one batch request names at most

\* results.append(result) with the counter the item's outcome bumps
BatchRecorded(st, es, cm, resource, success, message) ==
    [es |-> es, cm |-> cm,
     results |-> Append(st.results,
                        [resource |-> resource, success |-> success, message |-> message]),
     success_count |-> st.success_count + (IF success THEN 1 ELSE 0),
     failed_count |-> st.failed_count + (IF success THEN 0 ELSE 1)]

\* the item of an update_config once update_resource_configuration has
\* returned a result or raised (`except Exception as e`)
BatchUpdated(st, resource, out) ==
    IF out.outcome = "result"
      THEN BatchRecorded(st, out.es, out.cm, resource, out.result.success,
                         out.result.message)
      ELSE BatchRecorded(st, out.es, out.cm, resource, FALSE, <<out.outcome>>)

\* the body of `for resource in batch_request.resources`
BatchItem(st, resource, operation, parameters, user, wr) ==
    IF operation = "scale"
      THEN IF resource.type = "deployment"
             THEN BatchRecorded(st, st.es, st.cm, resource, TRUE,
                    <<"Scaled to ",
                      IntStr(IF In("replicas", parameters) THEN parameters.v["replicas"].v
                             ELSE 1),
                      " replicas">>)
             ELSE BatchRecorded(st, st.es, st.cm, resource, FALSE,
                    <<"Scaling not supported for this resource type">>)
    ELSE IF operation = "update_config"
      THEN BatchUpdated(st, resource,
             Service_update_resource_configuration(st.es, st.cm, resource,
               IF In("configuration", parameters) THEN parameters.v["configuration"]
               ELSE PyEmptyDict,
               user, FALSE, wr))
    ELSE BatchRecorded(st, st.es, st.cm, resource, FALSE, <<"Unsupported operation">>)

\* a loop that is left at the first item that fails
RECURSIVE BatchItems_stop_at_failure(_, _, _, _, _, _, _)
BatchItems_stop_at_failure(st, resources, i, operation, parameters, user, wrs) ==
    IF i > Len(resources) \/ st.failed_count > 0 THEN st
    ELSE BatchItems_stop_at_failure(
           BatchItem(st, resources[i], operation, parameters, user, wrs[i]),
           resources, i + 1, operation, parameters, user, wrs)

\* the loop from its i-th resource on; wrs[i] is what the cluster answers to the
\* write of the i-th item, if that item writes
RECURSIVE BatchItems(_, _, _, _, _, _, _)
BatchItems(st, resources, i, operation, parameters, user, wrs) ==
    IF i > Len(resources) THEN st
    ELSE BatchItems(BatchItem(st, resources[i], operation, parameters, user, wrs[i]),
                    resources, i + 1, operation, parameters, user, wrs)

\* the BatchOperationResult of the loop, with the engine and cache it leaves
BatchOperationResult(st) ==
    [es |-> st.es, cm |-> st.cm,
     ret |-> [success |-> st.failed_count = 0, results |-> st.results,
              success_count |-> st.success_count, failed_count |-> st.failed_count]]

batch_operation(es, cm, resources, operation, parameters, user, wrs) ==
    BatchOperationResult(
      BatchItems([es |-> es, cm |-> cm, results |-> <<>>, success_count |-> 0,
                  failed_count |-> 0],
                 resources, 1, operation, parameters, user, wrs))

\* the targets of a batch: the resources and one of a type the service does
\* not know
BatchTargets == Resources \cup {[type |-> "job", namespace |-> "default", name |-> "backup"]}

\* operation and parameters of the requests
BatchRequests ==
    {[operation |-> "scale", parameters |-> PyDict([replicas |-> PyInt(2)])],
     [operation |-> "update_config", parameters |-> PyDict([configuration |-> ReplicasPatch])],
     [operation |-> "update_config",
      parameters |-> PyDict([configuration |-> WithReplicas(NginxConfig, 5)])],
     [operation |-> "restart", parameters |-> PyEmptyDict]}

BatchServed(resources, request, user, out) ==
    /\ SetEngine(out.es)
    /\ SetCacheManager(out.cm)
    /\ last' = [NoCall EXCEPT !.op = "batch", !.key = resources,
                              !.answer = request.operation,
                              !.new_config = request.parameters,
                              !.user = user, !.ret = out.ret]

\* one batch request, served on the state construction leaves
Batch(resources, request, user, wrs) ==
    /\ steps = 0
    /\ BatchServed(resources, request, user,
         batch_operation(Engine, CacheManager, resources, request.operation,
                         request.parameters, user, wrs))
    /\ steps' = steps + 1
    /\ UNCHANGED <<available, tasks>>

NextBatch ==
    \E n \in 0..MaxTargets : \E resources \in [1..n -> BatchTargets] :
       \E request \in BatchRequests, user \in Users, wrs \in [1..n -> WriteOutcomes] :
          Batch(resources, request, user, wrs)

SpecBatch == Init /\ [][NextBatch]_vars

\* C26: a batch processes its targets in order and in isolation: the result
\* holds one outcome per target, in the order of the targets; success_count +
\* failed_count is the number of targets; a target that fails or raises, or
\* an operation that is not known, is that item's failure, and the targets
\* after it are processed all the same: an update_config item that reports
\* success has its write in the cluster when the batch returns.
C26_BatchIsolation ==
    last.op = "batch" =>
      LET resources == last.key
          results == last.ret.results
      IN /\ Len(results) = Len(resources)
         /\ \A i \in DOMAIN resources : results[i].resource = resources[i]
         /\ last.ret.success_count = Cardinality({i \in DOMAIN results : results[i].success})
         /\ last.ret.failed_count = Cardinality({i \in DOMAIN results : ~results[i].success})
         /\ last.ret.success_count + last.ret.failed_count = Len(resources)
         /\ last.answer \notin {"scale", "update_config"}
              => \A i \in DOMAIN results : ~results[i].success
         /\ \A i \in DOMAIN results :
               (resources[i].type \notin ResourceType /\ last.answer = "update_config")
                 => ~results[i].success
         /\ \A i \in DOMAIN results :
               (last.answer = "update_config" /\ results[i].success)
                 => /\ cluster[resources[i]].exists
                    /\ cluster[resources[i]].config.v["spec"].v["replicas"]
                         = last.new_config.v["configuration"].v["spec"].v["replicas"]

\* an update_config batch whose first target failed and whose second target
\* was updated
C26_Witness ==
    /\ last.op = "batch"
    /\ last.answer = "update_config"
    /\ Len(last.key) = 2
    /\ ~last.ret.results[1].success
    /\ last.ret.results[2].success
    /\ cluster[last.key[2]].config.v["spec"].v["replicas"] = PyInt(5)

\* C27: a batch scale changes replicas through apply: for every deployment
\* target whose item reports success the cluster's spec.replicas is the
\* requested count when the batch returns, an update having been made.
C27_BatchScaleApplies ==
    (last.op = "batch" /\ last.answer = "scale") =>
      \A i \in DOMAIN last.key :
         last.ret.results[i].success
           => /\ calls.writes > 0
              /\ cluster[last.key[i]].exists
              /\ cluster[last.key[i]].config.v["spec"].v["replicas"]
                   = last.new_config.v["replicas"]

-----------------------------------------------------------------------------
(* The endpoint scale_deployment.  The dict that get_resource_configuration  *)
(* of the service returns with use_cache is the object the cache entry of   *)
(* the resource holds as data: the one found by the lookup, or the one just *)
(* stored by set_resource_config.                                           *)

\* `current_config['spec']['replicas'] = scale_request.replicas` as the cache
\* manager sees it: the data of the entry is that dict
ScaleAliased(cm, r, current_config) ==
    LET key == ConfigKey(r.type, r.namespace, r.name)
    IN IF key \in DOMAIN cm.cache /\ cm.cache[key].data # current_config
         THEN [cm EXCEPT !.cache[key].data = current_config]
         ELSE cm

\* the endpoint once update_resource_configuration of the service has returned
\* or raised: a response schedules invalidate_namespace as a background task,
\* an exception is raised again
ScaleUpdated(r, updated) ==
    [es |-> updated.es, cm |-> updated.cm, outcome |-> updated.outcome,
     result |-> updated.result,
     background |-> IF updated.outcome = "result" THEN <<r.namespace>> ELSE <<>>]

\* the endpoint once get_resource_configuration of the service has returned
\* or raised
ScaleFetched(fetched, r, replicas, user, wr) ==
    IF fetched.outcome # "ok"
      THEN [es |-> fetched.es, cm |-> fetched.cm, outcome |-> fetched.outcome,
            result |-> NoResult, background |-> <<>>]
      ELSE ScaleUpdated(r,
             Service_update_resource_configuration(
               fetched.es, ScaleAliased(fetched.cm, r, WithReplicas(fetched.config, replicas)),
               r, WithReplicas(fetched.config, replicas), user, FALSE, wr))

scale_deployment(es, cm, r, replicas, user, wr) ==
    ScaleFetched(Service_get_resource_configuration(es, cm, r, TRUE), r, replicas,
                 user, wr)

ScaleServed(r, replicas, user, out) ==
    /\ SetEngine(out.es)
    /\ SetCacheManager(out.cm)
    /\ tasks' = [tasks EXCEPT !.background = @ \o out.background]
    /\ last' = [NoCall EXCEPT !.op = "scale", !.resource = r, !.count = replicas,
                              !.user = user, !.outcome = out.outcome,
                              !.result = out.result]

\* PATCH /api/deployments/{namespace}/{name}/scale, up to its response
Scale(r, replicas, user, wr) ==
    /\ steps < MaxOps
    /\ r.type = "deployment"
    /\ ScaleServed(r, replicas, user,
                   scale_deployment(Engine, CacheManager, r, replicas, user, wr))
    /\ steps' = steps + 1
    /\ UNCHANGED available

\* the oldest background task runs: k8s_cache.invalidate_namespace(namespace)
BackgroundTask ==
    /\ tasks.background # <<>>
    /\ SetCacheManager(invalidate_namespace(CacheManager, Head(tasks.background)).cm)
    /\ tasks' = [tasks EXCEPT !.background = Tail(@)]
    /\ last' = [NoCall EXCEPT !.op = "background"]
    /\ UNCHANGED <<cluster, config_cache, rollback_store, mock_configs, available,
                   calls, now, steps>>

NextScale ==
    \/ \E r \in {Nginx, Ghost} : Fetch(r, TRUE)
    \/ \E r \in {Nginx, Ghost}, replicas \in {2, 5}, user \in Users, wr \in WriteOutcomes :
          Scale(r, replicas, user, wr)
    \/ BackgroundTask

SpecScale == Init /\ [][NextScale]_vars

\* C28: cached configuration payloads are immutable snapshots: a fetch, a
\* scale or an apply never changes the payload of a cache entry that stays in
\* the store, so a later get of the entry returns what was stored.
C28_CachedPayloadImmutable ==
    [][last'.op \in {"fetch", "scale", "update"} =>
         \A key \in DOMAIN cache \cap DOMAIN cache' :
            cache'[key].timestamp = cache[key].timestamp
              => cache'[key].data = cache[key].data]_vars

-----------------------------------------------------------------------------
(* _periodic_cleanup as a task of its own.  Every `await` of the sweep is   *)
(* taken as a point where another task may run: tasks.sweep tells where the *)
(* sweep stands (asleep, in the loop of _cleanup_expired, in the loop of    *)
(* _enforce_size_limit) and which keys its loop has still to remove.        *)

\* the store after set(A), set(B) and a get, which starts the sweep task: A
\* expires, B is persistent
SweepFixture(tagsA, tagsB) ==
    get(set(set(EmptyManager, ConfigKey("deployment", "default", "nginx-deployment"),
                PyInt(1), "short_term", tagsA, 0).cm,
            _generate_cache_key("deployments", [namespace |-> "default"]),
            PyInt(1), "persistent", tagsB, 0).cm,
        ConfigKey("deployment", "default", "nginx-deployment"), 0).cm

InitSweep ==
    \E tagsB \in CacheTagSets :
       InitState(SweepFixture({<<"configurations">>, <<"namespace:", "default">>}, tagsB),
                 TRUE, NoCall)

SweepMoved(sweep) ==
    /\ tasks' = [tasks EXCEPT !.sweep = sweep]
    /\ last' = [NoCall EXCEPT !.op = "sweep"]
    /\ UNCHANGED <<cluster, config_cache, rollback_store, mock_configs, available,
                   calls, now, steps>>

\* asyncio.sleep is over: _cleanup_expired collects expired_keys
SweepWake ==
    /\ cleanup_started
    /\ tasks.sweep.phase = "sleep"
    /\ SweepMoved([phase |-> "expired",
                   keys |-> {key \in DOMAIN cache : is_expired(cache[key], now)}])
    /\ UNCHANGED cacheVars

\* `await self._remove_entry(key)` and `self._stats['evictions'] += 1` for one
\* key of the loop under way
SweepRemove(key) ==
    /\ tasks.sweep.phase \in {"expired", "lru"}
    /\ key \in tasks.sweep.keys
    /\ SetCacheManager(Bump(_remove_entry(CacheManager, key), "evictions", 1))
    /\ SweepMoved([tasks.sweep EXCEPT !.keys = @ \ {key}])

\* the loop under way is done: _enforce_size_limit picks its victims after
\* _cleanup_expired, asyncio.sleep follows _enforce_size_limit
SweepAdvance(victims) ==
    /\ tasks.sweep.phase \in {"expired", "lru"}
    /\ tasks.sweep.keys = {}
    /\ IF tasks.sweep.phase = "expired"
         THEN /\ victims \in LruVictims(CacheManager, MaxCacheSize)
              /\ SweepMoved([phase |-> "lru", keys |-> victims])
         ELSE /\ victims = {}
              /\ SweepMoved([phase |-> "sleep", keys |-> {}])
    /\ UNCHANGED cacheVars

NextSweep ==
    \/ \E key \in CacheKeys : Get(key)
    \/ \E key \in CacheKeys, data \in CacheData, strategy \in EvictStrategies,
          tags \in CacheTagSets : Set(key, data, strategy, tags)
    \/ \E key \in CacheKeys : InvalidateByKey(key)
    \/ \E tag \in CacheTags : InvalidateByTag(tag)
    \/ Elapse(40)
    \/ SweepWake
    \/ \E key \in CacheKeys : SweepRemove(key)
    \/ \E victims \in SUBSET DOMAIN cache : SweepAdvance(victims)

SpecSweep == InitSweep /\ [][NextSweep]_vars

\* C29: with the sweep running as a task beside get, set and invalidate, no
\* task finds, wherever control can pass to it, a tag set naming a key that is
\* not in the store or a stored entry missing from a tag it holds; and every
\* eviction of the sweep takes the entry out of the store and out of all tag
\* sets in one step.
C29_SweepAtomic ==
    /\ [](/\ \A tag \in DOMAIN tag_index : \A key \in tag_index[tag] :
                key \in DOMAIN cache /\ tag \in cache[key].tags
          /\ \A key \in DOMAIN cache : \A tag \in cache[key].tags :
                tag \in DOMAIN tag_index /\ key \in tag_index[tag])
    /\ [][\A key \in CacheKeys :
            SweepRemove(key) =>
              /\ key \notin DOMAIN cache'
              /\ \A tag \in DOMAIN tag_index' : key \notin tag_index'[tag]]_vars

\* a get, set or invalidate has run while a loop of the sweep still had a key
\* to remove, and an entry with two tags is in the store
C29_Witness ==
    /\ tasks.sweep.phase \in {"expired", "lru"}
    /\ tasks.sweep.keys # {}
    /\ last.op \in {"get", "set", "invalidate_by_key", "invalidate_by_tag"}
    /\ stats.evictions > 0
    /\ \E key \in DOMAIN cache : Cardinality(cache[key].tags) = 2

-----------------------------------------------------------------------------
(* Applies in flight.  The read and the write of the cluster are the points *)
(* where an apply waits and another apply may run: ApplyRead is the apply   *)
(* up to the call of patch_namespaced_*, ApplyWrite is the cluster's answer *)
(* to that call and the rest of the handler.  tasks.applies holds, for each *)
(* apply that waits for its write, what the handler has in its locals.      *)

MaxInFlight == 2

\* a patch that names the version its caller has read
VersionedPatch ==
    PyDict([metadata |-> PyDict([resourceVersion |-> PyInt(1),
                                 labels |-> PyDict([app |-> PyStr("nginx"),
                                                    tier |-> PyStr("web")])])])

ApplyProposals ==
    {LabelsPatch, ReplicasPatch, VersionedPatch, WithReplicas(NginxConfig, 5)}

\* what the cluster answers to patch_namespaced_*(name, namespace, body): 404
\* for an object it does not hold, 409 for a body whose metadata names a
\* version other than the object's, else the patched object
PatchAnswer(obj, body) ==
    IF ~obj.exists THEN "notfound"
    ELSE IF /\ In("metadata", body)
            /\ In("resourceVersion", body.v["metadata"])
            /\ body.v["metadata"].v["resourceVersion"] # PyInt(obj.rv)
      THEN "conflict"
    ELSE "ok"

\* the locals of update_resource_configuration when it calls the cluster;
\* resource_version is the version of the object the handler has fetched
InFlight(es, r, new_config, user, current_config) ==
    [resource |-> r, new_config |-> new_config, user |-> user,
     current_config |-> current_config,
     changes |-> _calculate_changes(current_config, new_config),
     body |-> _deep_merge_dict(current_config, new_config),
     resource_version |-> es.cluster[r].rv]

\* the apply returns before it writes: its fetch failed or validation blocks
ApplyReturned(r, new_config, user, out) ==
    /\ SetEngine(out.es)
    /\ last' = [NoCall EXCEPT !.op = "update", !.resource = r, !.user = user,
                              !.new_config = new_config, !.outcome = out.outcome,
                              !.result = out.result, !.current = out.current]
    /\ UNCHANGED tasks

\* the apply has stored its rollback record and waits for its write
ApplyWaits(es, apply) ==
    /\ SetEngine(StoreRollback(es, apply.resource, apply.current_config, apply.user))
    /\ tasks' = [tasks EXCEPT !.applies = Append(@, apply)]
    /\ last' = [NoCall EXCEPT !.op = "read", !.resource = apply.resource,
                              !.user = apply.user, !.new_config = apply.new_config,
                              !.current = apply.current_config]

ApplyFetched(fetch, r, new_config, user) ==
    IF \/ fetch.status # "ok"
       \/ ValidationBlocks(ValidationErrors(r.type, new_config), FALSE)
      THEN ApplyReturned(r, new_config, user,
                         UpdateFetched(fetch, r, new_config, user, FALSE, "ok"))
      ELSE ApplyWaits(fetch.es, InFlight(fetch.es, r, new_config, user, fetch.config))

\* update_resource_configuration(dry_run=False) up to its write
ApplyRead(r, new_config, user) ==
    /\ steps < MaxOps
    /\ Len(tasks.applies) < MaxInFlight
    /\ ApplyFetched(Manager_get_resource_configuration(Engine, r), r, new_config, user)
    /\ steps' = steps + 1
    /\ UNCHANGED <<cache, tag_index, stats, cleanup_started, available>>

\* the engine after the write of apply has been answered wr
ApplyWritten(es, apply, wr) ==
    LET sent == [es EXCEPT !.calls.writes = @ + 1, !.now = @ + RoundTrip]
        cache_key == ResourceKey(apply.resource)
    IN IF wr # "ok" THEN sent
       ELSE [sent EXCEPT !.cluster[apply.resource] = Patched(@, apply.body),
                         !.config_cache = [k \in DOMAIN @ \ {cache_key} |-> @[k]]]

ApplyAnswered(es, apply, wr) ==
    /\ SetEngine(es)
    /\ last' = [NoCall EXCEPT
                  !.op = "update", !.resource = apply.resource, !.user = apply.user,
                  !.new_config = apply.new_config, !.current = apply.current_config,
                  !.answer = wr,
                  !.outcome = IF wr = "ok" THEN "result" ELSE ApiExceptionOutcome(wr),
                  !.result = IF wr # "ok" THEN NoResult
                             ELSE ConfigurationResult(TRUE,
                                    <<"Successfully updated ", apply.resource.type, " ",
                                      apply.resource.name>>,
                                    apply.changes, apply.current_config, <<>>,
                                    IsoUtc(es.now), apply.user,
                                    PyInt(es.cluster[apply.resource].rv))]

\* the write of the i-th waiting apply and the handler's steps after it
ApplyWrite(i) ==
    /\ i \in DOMAIN tasks.applies
    /\ ApplyAnswered(ApplyWritten(Engine, tasks.applies[i],
                                  PatchAnswer(cluster[tasks.applies[i].resource],
                                              tasks.applies[i].body)),
                     tasks.applies[i],
                     PatchAnswer(cluster[tasks.applies[i].resource],
                                 tasks.applies[i].body))
    /\ tasks' = [tasks EXCEPT !.applies =
                   SubSeq(@, 1, i - 1) \o SubSeq(@, i + 1, Len(@))]
    /\ UNCHANGED <<cache, tag_index, stats, cleanup_started, available, steps>>

NextApply ==
    \/ \E r \in {Nginx, Ghost}, new_config \in ApplyProposals, user \in Users :
          ApplyRead(r, new_config, user)
    \/ \E i \in 1..MaxInFlight : ApplyWrite(i)

SpecApply == Init /\ [][NextApply]_vars

\* C30: an apply whose write reaches the cluster after another write has
\* changed the object it fetched (two applies on one resource that both
\* fetched before either wrote, and this one writes second) ends with the
\* Conflict outcome instead of overwriting.
C30_ConflictGuardsOrdering ==
    [][\A i \in 1..MaxInFlight :
         (/\ ApplyWrite(i)
          /\ cluster[tasks.applies[i].resource].rv # tasks.applies[i].resource_version)
           => last'.outcome = "http409"]_vars

-----------------------------------------------------------------------------
(* The invalidations and the replacement of an entry *)

\* C31: invalidate_by_tag(tag) removes exactly the entries that carry tag when
\* it is called and returns their number; afterwards no entry carries the tag,
\* the tag index has no set for it, no removed key is left in the set of any
\* other tag, and every other entry is stored and indexed as before.
C31_InvalidateByTagExact ==
    [][\A tag \in CacheTags :
         InvalidateByTag(tag) =>
           LET held == {key \in DOMAIN cache : tag \in cache[key].tags}
           IN /\ DOMAIN cache' = DOMAIN cache \ held
              /\ last'.count = Cardinality(held)
              /\ stats'.invalidations = stats.invalidations + Cardinality(held)
              /\ \A key \in DOMAIN cache' :
                    tag \notin cache'[key].tags /\ cache'[key] = cache[key]
              /\ tag \notin DOMAIN tag_index'
              /\ \A other \in DOMAIN tag_index' : tag_index'[other] \cap held = {}
              /\ \A other \in DOMAIN tag_index \ {tag} :
                    tag_index[other] \ held # {}
                      => /\ other \in DOMAIN tag_index'
                         /\ tag_index'[other] = tag_index[other] \ held]_vars

\* the invalidation of a tag has removed an entry that carried a second tag,
\* and an entry that carries only that second tag is still stored
C31_Witness ==
    /\ last.op = "invalidate_by_tag"
    /\ last.key = <<"configurations">>
    /\ last.count = 1
    /\ \E key \in DOMAIN cache : cache[key].tags = {<<"namespace:", "default">>}
    /\ DOMAIN tag_index = {<<"namespace:", "default">>}

\* key matches pattern under the grammar: prefix* by its start, *suffix by its
\* end, a pattern with neither by equality; a pattern that ends with the
\* wildcard is read as prefix*
Matches(key, pattern) ==
    IF pattern # <<>> /\ pattern[Len(pattern)] = "*"
      THEN /\ Len(key) >= Len(pattern) - 1
           /\ \A i \in 1..(Len(pattern) - 1) : key[i] = pattern[i]
    ELSE IF pattern # <<>> /\ pattern[1] = "*"
      THEN /\ Len(key) >= Len(pattern) - 1
           /\ \A i \in 2..Len(pattern) : key[Len(key) - Len(pattern) + i] = pattern[i]
    ELSE key = pattern

\* C32: invalidate_by_pattern(pattern) removes exactly the stored keys that
\* match the pattern, returns their number, and leaves every other entry, its
\* tags and its places in the tag index as they were.
C32_InvalidateByPatternExact ==
    [][\A pattern \in CachePatterns :
         InvalidateByPattern(pattern) =>
           LET matched == {key \in DOMAIN cache : Matches(key, pattern)}
           IN /\ DOMAIN cache' = DOMAIN cache \ matched
              /\ last'.count = Cardinality(matched)
              /\ \A key \in DOMAIN cache' :
                    /\ cache'[key] = cache[key]
                    /\ \A tag \in cache[key].tags :
                          tag \in DOMAIN tag_index' /\ key \in tag_index'[tag]
              /\ \A tag \in DOMAIN tag_index' :
                    tag_index'[tag] = tag_index[tag] \ matched]_vars

\* the pattern *=default has removed the one key that ends so, and the other
\* entry is stored with its tags
C32_Witness ==
    /\ last.op = "invalidate_by_pattern"
    /\ last.key = <<"*", "=", "default">>
    /\ last.count = 1
    /\ \E key \in DOMAIN cache : cache[key].tags # {}

\* C33: a set, under a policy other than NoCache, on a key that holds an entry
\* replaces the entry: the key is listed in the tag index under the new tags
\* and under no other tag, and the entry has the time of this set, no access,
\* the ttl of the new policy, the new tags and the new value.
C33_SetReplaces ==
    [][\A key \in CacheKeys, data \in CacheData, tags \in CacheTagSets :
         /\ (Set(key, data, "short_term", tags) /\ key \in DOMAIN cache)
              => cache'[key].ttl_seconds = 30
         /\ (Set(key, data, "persistent", tags) /\ key \in DOMAIN cache)
              => cache'[key].ttl_seconds = -1
         /\ \A strategy \in CacheStrategies \ {"no_cache"} :
              (Set(key, data, strategy, tags) /\ key \in DOMAIN cache)
                => /\ last'.flag
                   /\ \A tag \in tags : tag \in DOMAIN tag_index'
                   /\ \A tag \in DOMAIN tag_index' : key \in tag_index'[tag] <=> tag \in tags
                   /\ cache'[key].timestamp = now
                   /\ cache'[key].last_accessed = now
                   /\ cache'[key].access_count = 0
                   /\ cache'[key].tags = tags
                   /\ cache'[key].data = data
                   /\ DOMAIN cache' = DOMAIN cache]_vars

\* an entry was stored and read, and a set on its key has replaced it with an
\* entry under one tag that has not been read
C33_Witness ==
    /\ steps = 3
    /\ last.op = "set"
    /\ last.flag
    /\ stats.hits = 1
    /\ DOMAIN cache = {last.key}
    /\ cache[last.key].access_count = 0
    /\ cache[last.key].tags = {<<"namespace:", "default">>}
    /\ DOMAIN tag_index = {<<"namespace:", "default">>}

\* C34: a get adds one to exactly one of hits and misses, and no other
\* operation changes either, so hits + misses counts the gets.  A get of an
\* entry whose ttl has lapsed is a miss that returns None and takes the entry
\* out of the store and out of every tag set; a get of a key that is not
\* stored is a miss that leaves the store, the tag index and the other
\* counters as they were; any other get is a hit that returns the value.
C34_GetCounts ==
    [][/\ last'.op # "get"
            => stats'.hits = stats.hits /\ stats'.misses = stats.misses
       /\ \A key \in CacheKeys :
            Get(key) =>
              /\ stats'.hits + stats'.misses = stats.hits + stats.misses + 1
              /\ stats'.hits >= stats.hits /\ stats'.misses >= stats.misses
              /\ stats'.evictions = stats.evictions
              /\ stats'.invalidations = stats.invalidations
              /\ IF key \notin DOMAIN cache
                   THEN /\ stats'.misses = stats.misses + 1
                        /\ last'.ret = PyNone
                        /\ cache' = cache
                        /\ tag_index' = tag_index
                 ELSE IF /\ cache[key].ttl_seconds > 0
                         /\ now - cache[key].timestamp > cache[key].ttl_seconds
                   THEN /\ stats'.misses = stats.misses + 1
                        /\ last'.ret = PyNone
                        /\ DOMAIN cache' = DOMAIN cache \ {key}
                        /\ \A k \in DOMAIN cache' : cache'[k] = cache[k]
                        /\ \A tag \in DOMAIN tag_index' : key \notin tag_index'[tag]
                 ELSE /\ stats'.hits = stats.hits + 1
                      /\ last'.ret = cache[key].data
                      /\ DOMAIN cache' = DOMAIN cache]_vars

\* the entry stored under two tags has been found expired by a get, nothing
\* else has removed an entry, and no tag set names its key
C34_Witness ==
    /\ last.op = "get"
    /\ last.ret = PyNone
    /\ last.key = ConfigKey("deployment", "default", "nginx-deployment")
    /\ now = 40
    /\ stats.misses = 1
    /\ stats.evictions = 0
    /\ stats.invalidations = 0
    /\ last.key \notin DOMAIN cache
    /\ <<"configurations">> \notin DOMAIN tag_index

\* C35: when a round of the sweep is over, the store holds no entry whose ttl
\* has lapsed and no more entries than its maximum; the unexpired entries it
\* has removed were none of them accessed later than an entry that stays; and
\* evictions has grown by the number of entries the round removed.
C35_SweepPostcondition ==
    [][last'.op = "sweep" =>
         LET lapsed == {k \in DOMAIN cache :
                          /\ cache[k].ttl_seconds > 0
                          /\ now - cache[k].timestamp > cache[k].ttl_seconds}
             removed == DOMAIN cache \ DOMAIN cache'
         IN /\ DOMAIN cache' \subseteq DOMAIN cache
            /\ lapsed \subseteq removed
            /\ \A k \in DOMAIN cache' :
                  cache'[k].ttl_seconds <= 0
                    \/ now' - cache'[k].timestamp <= cache'[k].ttl_seconds
            /\ Cardinality(DOMAIN cache') <= MaxCacheSize
            /\ \A e \in removed \ lapsed : \A k \in DOMAIN cache' :
                  cache[e].last_accessed <= cache[k].last_accessed
            /\ stats'.evictions = stats.evictions + Cardinality(removed)
            /\ stats'.invalidations = stats.invalidations]_vars

\* a round of the sweep at time 40 has left the store empty: eviction for size
\* stops at the maximum, so the round has removed an entry whose ttl had
\* lapsed, and two entries in all were evicted
C35_Witness ==
    /\ last.op = "sweep"
    /\ now = 40
    /\ DOMAIN cache = {}
    /\ stats.evictions = 2

-----------------------------------------------------------------------------
(* The fetch of a configuration through the cache *)

\* the cache key of the configuration of r
KeyOf(r) == ConfigKey(r.type, r.namespace, r.name)

\* the entry of r is stored and its ttl has not lapsed
Fresh(r) ==
    /\ KeyOf(r) \in DOMAIN cache
    /\ ~(/\ cache[KeyOf(r)].ttl_seconds > 0
         /\ now - cache[KeyOf(r)].timestamp > cache[KeyOf(r)].ttl_seconds)

Settings == [type |-> "configmap", namespace |-> "default", name |-> "settings"]
Backup == [type |-> "job", namespace |-> "default", name |-> "backup"]
FetchTargets == Resources \cup {Settings, Backup}

NextFetch ==
    \/ \E r \in FetchTargets, use_cache \in BOOLEAN : Fetch(r, use_cache)
    \/ \E d \in TickSteps : Tick(d)

SpecFetch == Init /\ [][NextFetch]_vars

-----------------------------------------------------------------------------
(* Rollback and the keys of its records *)

\* the last call was a real apply on r that succeeded
AppliedTo(r) ==
    /\ last.op = "update"
    /\ last.resource = r
    /\ ~last.flag
    /\ last.outcome = "result"
    /\ last.result.success

\* C38: a rollback that succeeds, made right after a real apply that succeeded
\* and with the key of the record that apply stored, leaves the cluster with
\* the configuration the resource had before the apply, also when the apply
\* added keys.
C38_RollbackRestores ==
    [][\A r \in Resources :
         (/\ AppliedTo(r)
          /\ RollbackStep
          /\ last'.resource = r
          /\ last'.key = RollbackKey(r, now - RoundTrip)
          /\ last'.outcome = "result"
          /\ last'.result.success)
           => cluster'[r].config = last.current]_vars

\* rollback_key of the response of update_resource_config:
\* f"{resource_type}:{namespace}:{name}:{result.timestamp}" if result.success
\* else None (here <<>>)
ResponseRollbackKey(r, result) ==
    IF result.success THEN ResourceKey(r) \o <<":", result.timestamp>> ELSE <<>>

\* C39: when the response of an update carries a rollback key, the rollback
\* store holds a record under that key and the record is the snapshot of the
\* configuration that update found.
C39_ReportedKeyIsStored ==
    (/\ last.op = "update"
     /\ last.outcome = "result"
     /\ ResponseRollbackKey(last.resource, last.result) # <<>>)
      => /\ ResponseRollbackKey(last.resource, last.result) \in DOMAIN rollback_store
         /\ rollback_store[ResponseRollbackKey(last.resource, last.result)].config
              = last.current

\* C40: a rollback that writes to a resource applies a record that an apply on
\* that resource has stored: the key of the record starts with the type, the
\* namespace and the name of the resource written to.
C40_RollbackOwnSnapshot ==
    [][(/\ RollbackStep
        /\ last'.key \in DOMAIN rollback_store
        /\ calls'.writes = calls.writes + 1
        /\ last'.answer = "ok")
       => SubSeq(last'.key, 1, 5)
            = <<last'.resource.type, ":", last'.resource.namespace, ":",
                last'.resource.name>>]_vars

====
